---- MODULE Spec2Model ----
(***************************************************************************)
(* pricecart: the provider resilience layer (token bucket, circuit         *)
(* breaker, retrying HTTP client, TTL cache) and the price quoting engine  *)
(* (submitPrice, quoteCart), modelled from apps/api/src.                   *)
(*                                                                         *)
(* Each component has its own specification over the shared variables:     *)
(*   SpecRL      lib/rateLimit.ts                                          *)
(*   SpecRLClock lib/rateLimit.ts, with clock readings in any order        *)
(*   SpecRace    lib/rateLimit.ts, takeToken calls interleaved             *)
(*   SpecCB      lib/circuitBreaker.ts                                     *)
(*   SpecCBRace  lib/circuitBreaker.ts, recordFailure calls interleaved    *)
(*   SpecCache   lib/cache.ts                                              *)
(*   SpecHttp    lib/http.ts                                               *)
(*   SpecHttpFair lib/http.ts, where every fetch and every sleep ends       *)
(*   SpecDedupe, SpecOutlier  services/pricing.ts, submitPrice             *)
(*   SpecQuote   services/pricing.ts, quoteCart                            *)
(*   SpecEvidence services/pricing.ts, submitPrice and quoteCart together  *)
(*   SpecChecks  services/pricing.ts, the order of submitPrice's checks    *)
(*   SpecSubmitRace services/pricing.ts, two submitPrice calls interleaved *)
(*   SpecSearch  services/storeDiscovery.ts, storeSearch                   *)
(*   SpecCatalog services/productCatalog.ts, lookupProduct, searchProducts *)
(*   SpecOverlay services/krogerLivePrices.ts, getKrogerLivePriceOverlay   *)
(*   SpecPool    services/krogerLivePrices.ts, mapLimit's workers          *)
(* A specification leaves the variables of the other components at their   *)
(* initial values.                                                         *)
(***************************************************************************)
EXTENDS Integers, Sequences, FiniteSets, TLC

VARIABLES
    now,              \* the clock reading nowSec() returns, in whole seconds
    rlCfg,            \* rl_key -> the TokenBucketConfig its callers pass
    rate_limits,      \* table rate_limits: rl_key -> NoRow or {tokens, updated_at}
    rlCalls,          \* history: rl_key -> number of takeToken calls made
    rlRet,            \* history: the last takeToken call and what it returned
    rlLast,           \* history: per key, its last takeToken call and whether
                      \* the call on the key before that was denied, and when
    rlRace,           \* concurrent takeToken calls on key "k": what each caller
                      \* has read, and history: calls admitted, writes over a
                      \* row changed since it was read
    cbOpts,           \* provider -> the opts its callers pass to recordFailure
    provider_health,  \* table provider_health: provider -> NoRow or row
    cbRun,            \* history: provider -> recordFailure calls since the last recordSuccess
    cbLastFailAt,     \* history: provider -> clock reading of the last recordFailure
    cbRace,           \* concurrent recordFailure calls on one provider: what
                      \* each caller has read, and history: calls completed
    cbRet,            \* history: the last breaker call; result is what isOpen
                      \* returned, or for a record* call would have returned before it
    query_cache,      \* table query_cache: cache_key -> NoRow or row
    cacheLast,        \* history: cache_key -> the last call that wrote its row
    cacheRet,         \* history: the last cache call and what it returned
    httpReq,          \* the arguments of the fetchWithRetry call
    http,             \* fetchWithRetry: where it is, its locals, its outcome
    httpSeen,         \* history: what the upstream answered, attempt by attempt
    httpSleeps,       \* history: the durations slept
    httpHeaders,      \* history: the Retry-After header of each answer ("": none)
    stores,           \* table stores: the ids that exist
    products,         \* table products: the upcs that exist
    price_snapshots,  \* table price_snapshots: its rows, in insertion order
    submitRet,        \* history: the last submitPrice call and how it ended
    submitRace,       \* concurrent submitPrice calls: where each caller is,
                      \* its locals, and history: how its call ended
    cart_items,       \* table cart_items of session s1: {upc, quantity}, in the
                      \* order the quote's query returns them
    quoteRet,         \* history: the last quoteCart call, its response and the
                      \* ranking it computed
    searchRet,        \* history: the last storeSearch call and how it ended
    product_rows,     \* table products: upc -> {source, name, updated_at}
    product_provider_payloads,  \* table product_provider_payloads: its rows
    background,       \* the refreshes handed to execCtx.waitUntil, not yet run
    catRet,           \* history: the last lookupProduct or searchProducts call
    store_provider_mappings,  \* table store_provider_mappings, provider 'kroger':
                      \* store_id -> NoRow or row
    overlay,          \* getKrogerLivePriceOverlay: where it is and its locals
    resolved,         \* history: the last resolveLocationId call, the candidates
                      \* the provider gave it and what it returned
    pool,             \* mapLimit inside the overlay: idx, what each worker is
                      \* doing, and history: how often each item was processed
    overlayRet        \* history: the last getKrogerLivePriceOverlay call that returned

\* A key with no row in a table (the SQL .first() that yields null).
NoRow == [none |-> TRUE]

\* No call made yet.
NoCall == [op |-> "none"]

Min(a, b) == IF a <= b THEN a ELSE b
Max(a, b) == IF a >= b THEN a ELSE b

(***************************************************************************)
(* Clock.  nowSec() is a whole number of seconds; it never goes back,       *)
(* except in SpecRLClock.                                                  *)
(***************************************************************************)
Advance(step, limit) ==
    /\ now + step <= limit
    /\ now' = now + step

\* The clock moves on to a later one of the given readings.
AdvanceTo(readings) ==
    /\ now' \in readings
    /\ now' > now

(***************************************************************************)
(* Token bucket limiter, lib/rateLimit.ts.                                  *)
(* tokens is a REAL; the model counts in units of 1/TokenScale token, so    *)
(* that a refill of 1/TokenScale token per second is one unit per second.   *)
(***************************************************************************)
TokenScale == 2
MaxCapacity == 3      \* capacities 0..MaxCapacity tokens
MaxCost == 2          \* costs 1..MaxCost tokens
MaxRefill == 1        \* refill 0..MaxRefill units per second
MaxCalls == 5         \* takeToken calls made per key
RLMaxTime == 3        \* last clock reading of SpecRL

\* "k" is a key whose caller chooses the config (as in rateLimit.test.ts),
\* "k2" one with a fixed refilling config; the other two are the buckets of
\* quoteCart and submitPrice for one session.
RLKeys == {"k", "k2"}
AllRLKeys == RLKeys \cup {"quote:s1", "price_submit:s1"}

TokenBucketConfigs ==
    [capacity : {c * TokenScale : c \in 0..MaxCapacity},
     refillPerSec : 0..MaxRefill,
     cost : {c * TokenScale : c \in 1..MaxCost}]

\* takeToken whose elapsed time is t - updatedAt, below zero when the clock
\* reads earlier than the row.
takeTokenSignedElapsed(row, cfg, t) ==
    LET stored == IF row = NoRow THEN cfg.capacity ELSE row.tokens
        updatedAt == IF row = NoRow THEN t ELSE row.updated_at
        elapsed == t - updatedAt
        tokens == Min(cfg.capacity, stored + elapsed * cfg.refillPerSec)
        allowed == tokens >= cfg.cost
    IN  [allowed |-> allowed,
         row |-> [tokens |-> IF allowed THEN tokens - cfg.cost ELSE tokens,
                  updated_at |-> t]]

\* takeToken that grants without taking the cost off the bucket.
takeTokenFree(row, cfg, t) ==
    LET stored == IF row = NoRow THEN cfg.capacity ELSE row.tokens
        updatedAt == IF row = NoRow THEN t ELSE row.updated_at
        elapsed == Max(0, t - updatedAt)
        tokens == Min(cfg.capacity, stored + elapsed * cfg.refillPerSec)
        allowed == tokens >= cfg.cost
    IN  [allowed |-> allowed, row |-> [tokens |-> tokens, updated_at |-> t]]

\* takeToken that adds no refill for the time elapsed.
takeTokenNoRefill(row, cfg, t) ==
    LET stored == IF row = NoRow THEN cfg.capacity ELSE row.tokens
        tokens == Min(cfg.capacity, stored)
        allowed == tokens >= cfg.cost
    IN  [allowed |-> allowed,
         row |-> [tokens |-> IF allowed THEN tokens - cfg.cost ELSE tokens,
                  updated_at |-> t]]

\* takeToken with `allowed = tokens > cost`: the last token is never granted.
takeTokenStrict(row, cfg, t) ==
    LET stored == IF row = NoRow THEN cfg.capacity ELSE row.tokens
        updatedAt == IF row = NoRow THEN t ELSE row.updated_at
        elapsed == Max(0, t - updatedAt)
        tokens == Min(cfg.capacity, stored + elapsed * cfg.refillPerSec)
        allowed == tokens > cfg.cost
    IN  [allowed |-> allowed,
         row |-> [tokens |-> IF allowed THEN tokens - cfg.cost ELSE tokens,
                  updated_at |-> t]]

\* takeToken that writes the row only when it grants: a denied call leaves
\* the row, with its old timestamp, as it was.
takeTokenWriteOnGrant(row, cfg, t) ==
    LET stored == IF row = NoRow THEN cfg.capacity ELSE row.tokens
        updatedAt == IF row = NoRow THEN t ELSE row.updated_at
        elapsed == Max(0, t - updatedAt)
        tokens == Min(cfg.capacity, stored + elapsed * cfg.refillPerSec)
        allowed == tokens >= cfg.cost
    IN  [allowed |-> allowed,
         row |-> IF allowed THEN [tokens |-> tokens - cfg.cost, updated_at |-> t]
                 ELSE row]

\* takeToken(db, key, cfg) on the row it reads at clock reading t: what it
\* returns and the row it writes back.
takeToken(row, cfg, t) ==
    LET stored == IF row = NoRow THEN cfg.capacity ELSE row.tokens
        updatedAt == IF row = NoRow THEN t ELSE row.updated_at
        elapsed == Max(0, t - updatedAt)
        tokens == Min(cfg.capacity, stored + elapsed * cfg.refillPerSec)
        allowed == tokens >= cfg.cost
    IN  [allowed |-> allowed,
         row |-> [tokens |-> IF allowed THEN tokens - cfg.cost ELSE tokens,
                  updated_at |-> t]]

\* In rlLast: the call before was allowed, or there was none.
NoDenial == -1

\* One whole takeToken call (read, compute, INSERT OR REPLACE), not interleaved.
TakeToken(key) ==
    /\ rlCalls[key] < MaxCalls
    /\ LET r == takeToken(rate_limits[key], rlCfg[key], now)
       IN  /\ rate_limits' = [rate_limits EXCEPT ![key] = r.row]
           /\ rlRet' = [op |-> "takeToken", key |-> key, allowed |-> r.allowed]
           /\ rlLast' = [rlLast EXCEPT ![key] =
                            [op |-> "takeToken", allowed |-> r.allowed, at |-> now,
                             deniedAt |-> IF rlLast[key] # NoCall /\ ~rlLast[key].allowed
                                          THEN rlLast[key].at ELSE NoDenial]]
    /\ rlCalls' = [rlCalls EXCEPT ![key] = @ + 1]
    /\ UNCHANGED <<now, rlCfg, rlRace>>

\* Concurrent takeToken calls on key "k": requests of one session served at
\* once, or the workers mapLimit starts in one live-price overlay.  Each call
\* awaits its SELECT and later its INSERT OR REPLACE, and the steps of other
\* calls may come between the two.
Callers == {"w1", "w2"}
MaxRaceCalls == 4     \* takeToken calls started by the callers together

RaceIdle ==
    [callers |-> [w \in Callers |-> [pc |-> "idle"]],
     started |-> 0, admitted |-> 0, overwrote |-> FALSE]

\* Lines 18-22: the caller reads the clock and the row of the key.
RaceRead(w) ==
    /\ rlRace.callers[w].pc = "idle"
    /\ rlRace.started < MaxRaceCalls
    /\ rlRace' = [rlRace EXCEPT
                    !.callers[w] = [pc |-> "read", row |-> rate_limits["k"], t |-> now],
                    !.started = @ + 1]
    /\ UNCHANGED <<now, rate_limits, rlCfg, rlCalls, rlRet, rlLast>>

\* Lines 24-38: the caller computes from the row it read, writes the row
\* back and returns.
RaceWrite(w) ==
    /\ rlRace.callers[w].pc = "read"
    /\ LET r == takeToken(rlRace.callers[w].row, rlCfg["k"], rlRace.callers[w].t)
       IN  /\ rate_limits' = [rate_limits EXCEPT !["k"] = r.row]
           /\ rlRace' = [rlRace EXCEPT
                           !.callers[w] = [pc |-> "idle"],
                           !.admitted = IF r.allowed THEN @ + 1 ELSE @,
                           !.overwrote = @ \/ rate_limits["k"] # rlRace.callers[w].row]
    /\ UNCHANGED <<now, rlCfg, rlCalls, rlRet, rlLast>>

(***************************************************************************)
(* Circuit breaker, lib/circuitBreaker.ts.                                  *)
(***************************************************************************)
DefaultTripAfter == 3
DefaultOpenForSec == 300
MaxFailures == 4      \* recordFailure calls made per provider between successes
CBEarly == 2          \* SpecCB reads the clock at 0..CBEarly and around the
                      \* end of a window opened then

Providers == {"nominatim", "kroger"}

\* opts of recordFailure: the defaults, which every adapter uses, and a
\* shorter pair.
DefaultOpts == [tripAfter |-> DefaultTripAfter, openForSec |-> DefaultOpenForSec]

BreakerOpts ==
    {c \in [Providers -> {DefaultOpts, [tripAfter |-> 2, openForSec |-> 2]}] :
        c["kroger"] = DefaultOpts}

CBReadings ==
    (0..CBEarly) \cup {DefaultOpenForSec - 1 + d : d \in 0..(CBEarly + 2)}

\* isOpen with `open_until >= t`: still open at the reading the window ends.
isOpenInclusive(row, t) ==
    IF row = NoRow THEN FALSE ELSE row.open_until >= t

\* isOpen(db, provider) on the row it reads at clock reading t.
isOpen(row, t) ==
    IF row = NoRow THEN FALSE ELSE row.open_until > t

\* recordSuccess that takes one failure off the count instead of all.
recordSuccessDecrement(row) ==
    [consecutive_failures |->
        IF row = NoRow \/ row.consecutive_failures = 0 THEN 0
        ELSE row.consecutive_failures - 1,
     open_until |-> 0]

\* recordSuccess that resets the failure count but keeps the open window.
recordSuccessKeepWindow(row) ==
    [consecutive_failures |-> 0,
     open_until |-> IF row = NoRow THEN 0 ELSE row.open_until]

\* The row recordSuccess(db, provider) writes.
recordSuccess(row) ==
    [consecutive_failures |-> 0, open_until |-> 0]

\* recordFailure with `failures > tripAfter`: trips one failure late.
recordFailureLate(row, opts, t) ==
    LET failures == (IF row = NoRow THEN 0 ELSE row.consecutive_failures) + 1
        openUntil == IF failures > opts.tripAfter
                     THEN t + opts.openForSec
                     ELSE (IF row = NoRow THEN 0 ELSE row.open_until)
    IN  [consecutive_failures |-> failures, open_until |-> openUntil]

\* recordFailure of a breaker with a probe state: a failure after the window
\* has ended starts counting again from zero.
recordFailureFromZeroAfterExpiry(row, opts, t) ==
    LET expired == row # NoRow /\ row.open_until > 0 /\ row.open_until <= t
        failures == (IF row = NoRow \/ expired THEN 0
                     ELSE row.consecutive_failures) + 1
        openUntil == IF failures >= opts.tripAfter
                     THEN t + opts.openForSec
                     ELSE (IF row = NoRow THEN 0 ELSE row.open_until)
    IN  [consecutive_failures |-> failures, open_until |-> openUntil]

\* recordFailure that opens the window once: a failure while the window is
\* still running leaves its end where it is.
recordFailureKeepWindow(row, opts, t) ==
    LET failures == (IF row = NoRow THEN 0 ELSE row.consecutive_failures) + 1
        openUntil == IF failures >= opts.tripAfter /\ ~isOpen(row, t)
                     THEN t + opts.openForSec
                     ELSE (IF row = NoRow THEN 0 ELSE row.open_until)
    IN  [consecutive_failures |-> failures, open_until |-> openUntil]

\* The row recordFailure(db, provider, opts) writes at clock reading t.
recordFailure(row, opts, t) ==
    LET failures == (IF row = NoRow THEN 0 ELSE row.consecutive_failures) + 1
        openUntil == IF failures >= opts.tripAfter
                     THEN t + opts.openForSec
                     ELSE (IF row = NoRow THEN 0 ELSE row.open_until)
    IN  [consecutive_failures |-> failures, open_until |-> openUntil]

IsOpen(p) ==
    /\ cbRet' = [op |-> "isOpen", provider |-> p, at |-> now,
                 result |-> isOpen(provider_health[p], now)]
    /\ UNCHANGED <<now, cbOpts, provider_health, cbRun, cbLastFailAt, cbRace>>

RecordSuccess(p) ==
    /\ provider_health' = [provider_health EXCEPT ![p] = recordSuccess(@)]
    /\ cbRun' = [cbRun EXCEPT ![p] = 0]
    /\ cbRet' = [op |-> "recordSuccess", provider |-> p, at |-> now,
                 result |-> isOpen(provider_health[p], now)]
    /\ UNCHANGED <<now, cbOpts, cbLastFailAt, cbRace>>

RecordFailure(p) ==
    /\ cbRun[p] < MaxFailures
    /\ provider_health' =
          [provider_health EXCEPT ![p] = recordFailure(@, cbOpts[p], now)]
    /\ cbRun' = [cbRun EXCEPT ![p] = @ + 1]
    /\ cbLastFailAt' = [cbLastFailAt EXCEPT ![p] = now]
    /\ cbRet' = [op |-> "recordFailure", provider |-> p, at |-> now,
                 result |-> isOpen(provider_health[p], now)]
    /\ UNCHANGED <<now, cbOpts, cbRace>>

\* recordFailure calls on one provider made by concurrent requests (or by the
\* overlay's workers): each call reads the clock and the row (lines 31-35),
\* awaits, and then writes the row it computed from what it read (37-46).
\* started and completed count the calls; overlapped records that a call
\* wrote over a row another call had written since its read.
RaceProvider == "nominatim"
MaxRaceFailures == 4
FailIdle ==
    [callers |-> [w \in Callers |-> [pc |-> "idle"]],
     started |-> 0, completed |-> 0, overlapped |-> FALSE]

FailureRead(w) ==
    /\ cbRace.callers[w].pc = "idle"
    /\ cbRace.started < MaxRaceFailures
    /\ cbRace' = [cbRace EXCEPT
                    !.callers[w] = [pc |-> "read",
                                    row |-> provider_health[RaceProvider],
                                    t |-> now],
                    !.started = @ + 1]
    /\ UNCHANGED <<now, cbOpts, provider_health, cbRun, cbLastFailAt, cbRet>>

FailureWrite(w) ==
    /\ cbRace.callers[w].pc = "read"
    /\ LET c == cbRace.callers[w]
       IN  /\ provider_health' =
                 [provider_health EXCEPT
                    ![RaceProvider] = recordFailure(c.row, cbOpts[RaceProvider], c.t)]
           /\ cbLastFailAt' = [cbLastFailAt EXCEPT ![RaceProvider] = c.t]
           /\ cbRet' = [op |-> "recordFailure", provider |-> RaceProvider,
                        at |-> c.t,
                        result |-> isOpen(provider_health[RaceProvider], now)]
           /\ cbRace' = [cbRace EXCEPT
                           !.callers[w] = [pc |-> "idle"],
                           !.completed = @ + 1,
                           !.overlapped =
                               @ \/ provider_health[RaceProvider] # c.row]
    /\ cbRun' = [cbRun EXCEPT ![RaceProvider] = @ + 1]
    /\ UNCHANGED <<now, cbOpts>>

(***************************************************************************)
(* Cache, lib/cache.ts.                                                     *)
(***************************************************************************)
MaxTtl == 2           \* ttlSec 0..MaxTtl
CacheMaxTime == 4     \* last clock reading of SpecCache

CacheKeys == {"off:product:1", "geo:x"}

\* The payloads callers store: JSON objects.
Payloads == {[price_cents |-> 399], [price_cents |-> 549]}

\* What a function that found nothing returns.
Null == [null |-> TRUE]

\* null where a number is expected (the numbers themselves are >= 0).
NullNumber == -1

\* JSON.stringify of a payload object and JSON.parse of the stored text.
\* A payload with the one member price_cents is written out member by member,
\* any other object as the text of its value.
JsonStringify(payload) ==
    IF DOMAIN payload = {"price_cents"}
    THEN <<"{", "price_cents", payload.price_cents, "}">>
    ELSE <<"{", "value", payload, "}">>
JsonParse(text) ==
    IF text[2] = "price_cents" THEN [price_cents |-> text[3]] ELSE text[3]

\* cacheGet with `expires_at < t`: an entry is still served at its expiry.
cacheGetLate(row, t) ==
    IF row = NoRow THEN Null
    ELSE IF row.expires_at < t THEN Null
    ELSE JsonParse(row.payload_json)

\* cacheGet(db, cacheKey) on the row it reads at clock reading t.
cacheGet(row, t) ==
    IF row = NoRow THEN Null
    ELSE IF row.expires_at <= t THEN Null
    ELSE JsonParse(row.payload_json)

\* cachePeek(db, cacheKey) on the row it reads at clock reading t.
cachePeek(row, t) ==
    IF row = NoRow THEN Null
    ELSE [payload |-> JsonParse(row.payload_json), expires_at |-> row.expires_at,
          is_fresh |-> row.expires_at > t]

\* The row cachePut(db, cacheKey, payload, ttlSec) writes at clock reading t.
cachePut(payload, ttlSec, t) ==
    [payload_json |-> JsonStringify(payload), created_at |-> t,
     expires_at |-> t + ttlSec]

\* The table after cachePurgeExpired(db) at clock reading t.
cachePurgeExpired(table, t) ==
    [k \in DOMAIN table |->
        IF table[k] # NoRow /\ table[k].expires_at <= t THEN NoRow ELSE table[k]]

CacheGet(key) ==
    /\ cacheRet' = [op |-> "cacheGet", key |-> key, at |-> now,
                    result |-> cacheGet(query_cache[key], now)]
    /\ UNCHANGED <<now, query_cache, cacheLast>>

CachePeek(key) ==
    /\ cacheRet' = [op |-> "cachePeek", key |-> key, at |-> now,
                    result |-> cachePeek(query_cache[key], now)]
    /\ UNCHANGED <<now, query_cache, cacheLast>>

CachePut(key, payload, ttlSec) ==
    /\ query_cache' = [query_cache EXCEPT ![key] = cachePut(payload, ttlSec, now)]
    /\ cacheLast' = [cacheLast EXCEPT ![key] =
                        [op |-> "cachePut", payload |-> payload,
                         ttlSec |-> ttlSec, at |-> now]]
    /\ cacheRet' = [op |-> "cachePut", key |-> key, at |-> now, result |-> Null]
    /\ UNCHANGED now

CachePurgeExpired ==
    /\ query_cache' = cachePurgeExpired(query_cache, now)
    /\ cacheLast' = [k \in CacheKeys |->
                        IF query_cache'[k] # query_cache[k]
                        THEN [op |-> "cachePurgeExpired"] ELSE cacheLast[k]]
    /\ cacheRet' = [op |-> "cachePurgeExpired", key |-> "", at |-> now,
                    result |-> Null]
    /\ UNCHANGED now

(***************************************************************************)
(* Resilient HTTP client, lib/http.ts (src/unnamed/part_007).               *)
(***************************************************************************)
BaseDelayMs == 250
MaxDelayMs == 2000
MaxAttempts == 4      \* retry.attempts 0..MaxAttempts

RetryOnStatuses == {429, 500, 502, 503, 504}

\* An option or header that is not given.
Undefined == [undefined |-> TRUE]

\* init.method as callers write it; "" is a call that gives none.
Methods == {"", "GET", "head", "POST"}

ToUpperCase(m) ==
    CASE m = "head" -> "HEAD"
      [] m = "get" -> "GET"
      [] m = "post" -> "POST"
      [] OTHER -> m

\* The input of a request: every provider passes the URL as a string.
RequestUrl == "https://upstream.example/q"
RequestInputs == [kind : {"string"}, href : {RequestUrl}]

\* toUrlString(input): the string itself, URL.toString(), else String(input).
toUrlString(input) ==
    CASE input.kind = "string" -> input.href
      [] input.kind = "URL" -> input.href
      [] OTHER -> "[object Request]"

HttpRequests ==
    [input : RequestInputs,
     method : Methods,
     isIdempotent : {"undefined", "true", "false"},
     attempts : 0..MaxAttempts,
     retryOnStatuses : {RetryOnStatuses, {429}}]

\* What one fetch() can do: answer with a status (and maybe a Retry-After
\* header), be aborted by the timeout, or fail in transport.
RetryAfterHeaders == {"", "0", "1", "60", "-2", "soon"}   \* "": no such header

FetchOutcomes ==
    [kind : {"response"}, status : {200, 404, 503}, retryAfter : {""}]
      \cup [kind : {"response"}, status : {503}, retryAfter : RetryAfterHeaders]
      \cup {[kind |-> "abort"], [kind |-> "network"]}

\* Math.random() * 2 - 1, in tenths.
JitterRolls == {-10, 0, 9}

\* jitter(ms) for the roll r/10 of Math.random() * 2 - 1.
jitter(ms, r) == Max(0, (ms * (100 + 2 * r)) \div 100)

\* parseRetryAfterSeconds that takes any number, negative ones too.
parseRetryAfterAnyNumber(value) ==
    CASE value = "0" -> 0
      [] value = "1" -> 1
      [] value = "60" -> 60
      [] value = "-2" -> -2
      [] OTHER -> NullNumber

\* parseRetryAfterSeconds(value): Number(value) when the header is there and
\* the number is finite and >= 0, else null.
parseRetryAfterSeconds(value) ==
    CASE value = "0" -> 0
      [] value = "1" -> 1
      [] value = "60" -> 60
      [] OTHER -> NullNumber

Pow2(n) == IF n <= 0 THEN 1 ELSE 2 ^ n

\* fetchWithTimeout that rethrows the abort as it caught it.
fetchWithTimeoutRethrow(outcome) ==
    CASE outcome.kind = "abort" -> [error |-> "AbortError"]
      [] outcome.kind = "network" -> [error |-> "TypeError"]
      [] OTHER -> outcome

\* fetchWithTimeout: an aborted fetch raises TimeoutError, any other error is
\* rethrown, a response is returned.
fetchWithTimeout(outcome) ==
    CASE outcome.kind = "abort" -> [error |-> "TimeoutError"]
      [] outcome.kind = "network" -> [error |-> "TypeError"]
      [] OTHER -> outcome

\* isIdempotent that counts every request as idempotent.
isIdempotentAlways(req) == TRUE

\* opts.isIdempotent ?? (method === "GET" || method === "HEAD")
isIdempotent(req) ==
    LET method == ToUpperCase(IF req.method = "" THEN "GET" ELSE req.method)
    IN  IF req.isIdempotent = "undefined"
        THEN method = "GET" \/ method = "HEAD"
        ELSE req.isIdempotent = "true"

\* totalAttempts that allows one attempt more than asked for.
totalAttemptsLong(req) == Max(1, req.attempts) + 1

\* totalAttempts that gives up one attempt early.
totalAttemptsShort(req) == Max(1, req.attempts - 1)

\* totalAttempts = Math.max(1, attempts)
totalAttempts(req) == Max(1, req.attempts)

\* Math.min(maxDelayMs, baseDelayMs * 2 ** (attempt - 1))
backoffDelay(attempt) == Min(MaxDelayMs, BaseDelayMs * Pow2(attempt - 1))

\* The delay after a retryable response: Retry-After when it parses.
responseDelay(response, attempt) ==
    LET retryAfter == parseRetryAfterSeconds(response.retryAfter)
    IN  IF retryAfter # NullNumber
        THEN Min(MaxDelayMs, retryAfter * 1000)
        ELSE backoffDelay(attempt)

HttpStart == [pc |-> "fetch", attempt |-> 1, delay |-> 0,
              lastError |-> Undefined, result |-> Undefined]

\* The loop body of a client that retries every status from 400 up, in the
\* retry set or not.
loopBodyRetryEveryError(req, st, outcome) ==
    LET r == fetchWithTimeout(outcome)
        last == st.attempt >= totalAttempts(req)
        caught(error) ==
            IF ~isIdempotent(req) \/ last
            THEN [st EXCEPT !.pc = "thrown", !.lastError = error, !.result = error]
            ELSE [st EXCEPT !.pc = "sleep", !.lastError = error,
                            !.delay = backoffDelay(st.attempt)]
    IN  IF "error" \in DOMAIN r
        THEN caught(r)
        ELSE IF ~isIdempotent(req) \/ r.status < 400
        THEN [st EXCEPT !.pc = "returned", !.result = r]
        ELSE IF last
        THEN caught([error |-> "HttpError", status |-> r.status,
                     url |-> toUrlString(req.input)])
        ELSE [st EXCEPT !.pc = "sleep", !.delay = responseDelay(r, st.attempt)]

\* One iteration of the loop of fetchWithRetry, from the fetch to the return,
\* to the throw after the loop, or to the sleep before the next iteration.
loopBody(req, st, outcome) ==
    LET r == fetchWithTimeout(outcome)
        last == st.attempt >= totalAttempts(req)
        caught(error) ==
            IF ~isIdempotent(req) \/ last
            THEN [st EXCEPT !.pc = "thrown", !.lastError = error, !.result = error]
            ELSE [st EXCEPT !.pc = "sleep", !.lastError = error,
                            !.delay = backoffDelay(st.attempt)]
    IN  IF "error" \in DOMAIN r
        THEN caught(r)
        ELSE IF ~isIdempotent(req) \/ r.status \notin req.retryOnStatuses
        THEN [st EXCEPT !.pc = "returned", !.result = r]
        ELSE IF last
        THEN caught([error |-> "HttpError", status |-> r.status,
                     url |-> toUrlString(req.input)])
        ELSE [st EXCEPT !.pc = "sleep", !.delay = responseDelay(r, st.attempt)]

\* What the history keeps of an outcome: its kind and, for a response, its
\* status (0 otherwise).
Seen(outcome) ==
    [kind |-> outcome.kind,
     status |-> IF outcome.kind = "response" THEN outcome.status ELSE 0]

Answered(status) == [kind |-> "response", status |-> status]

Fetch(outcome) ==
    /\ http.pc = "fetch"
    /\ http' = loopBody(httpReq, http, outcome)
    /\ httpSeen' = Append(httpSeen, Seen(outcome))
    /\ httpHeaders' = Append(httpHeaders,
                             IF outcome.kind = "response" THEN outcome.retryAfter
                             ELSE "")
    /\ UNCHANGED <<now, httpReq, httpSleeps>>

\* await sleep(jitter(delay)), then attempt++.
Sleep(roll) ==
    /\ http.pc = "sleep"
    /\ http' = [http EXCEPT !.pc = "fetch", !.attempt = @ + 1]
    /\ httpSleeps' = Append(httpSleeps, jitter(http.delay, roll))
    /\ UNCHANGED <<now, httpReq, httpSeen, httpHeaders>>

(***************************************************************************)
(* Price submission, services/pricing.ts, submitPrice.                      *)
(***************************************************************************)
DedupeWindowSec == 3600
FutureSkewSec == 86400
HistLimit == 25
MaxSubmits == 3       \* submitPrice calls made in one behaviour

\* RL_SUBMIT = {capacity: 20, refillPerSec: 1/60, cost: 1}, in units of 1/60 token.
RL_SUBMIT == [capacity |-> 20 * 60, refillPerSec |-> 1, cost |-> 60]

\* input.observed_at when the caller gives none (the schema admits only >= 0).
NoObservedAt == -1

\* clamp01(x) for x in hundredths.
clamp01(x) == IF x < 0 THEN 0 ELSE IF x > 100 THEN 100 ELSE x

RECURSIVE Insert(_, _)
\* The ascending sequence a with x put in its place.
Insert(a, x) ==
    IF a = <<>> THEN <<x>>
    ELSE IF x < Head(a) THEN <<x>> \o a
    ELSE <<Head(a)>> \o Insert(Tail(a), x)

RECURSIVE SortAsc(_)
\* [...nums].sort((x, y) => x - y)
SortAsc(nums) ==
    IF nums = <<>> THEN <<>> ELSE Insert(SortAsc(Tail(nums)), Head(nums))

\* Math.round(x / 2) for an integer x >= 0
RoundHalf(x) == (x + 1) \div 2

\* median(nums): null for no numbers, the middle one, or the rounded mean of
\* the two middle ones.
median(nums) ==
    IF nums = <<>> THEN NullNumber
    ELSE LET a == SortAsc(nums)
             mid == Len(a) \div 2          \* 0-based index
         IN  IF Len(a) % 2 = 1 THEN a[mid + 1]
             ELSE RoundHalf(a[mid] + a[mid + 1])

\* The rows of (store_id, upc), as indices into the table.
RowsOf(table, store_id, upc) ==
    {i \in 1..Len(table) : table[i].store_id = store_id /\ table[i].upc = upc}

\* isDuplicate that does not look at the price.
isDuplicateAnyPrice(row, input, observedAt) ==
    /\ row.store_id = input.store_id
    /\ row.upc = input.upc
    /\ (IF row.observed_at >= observedAt THEN row.observed_at - observedAt
        ELSE observedAt - row.observed_at) <= DedupeWindowSec

\* isDuplicate with `< 3600`: a row exactly one hour away is no duplicate.
isDuplicateStrict(row, input, observedAt) ==
    /\ row.store_id = input.store_id
    /\ row.upc = input.upc
    /\ row.price_cents = input.price_cents
    /\ (IF row.observed_at >= observedAt THEN row.observed_at - observedAt
        ELSE observedAt - row.observed_at) < DedupeWindowSec

\* The WHERE clause of the dedupe query.
isDuplicate(row, input, observedAt) ==
    /\ row.store_id = input.store_id
    /\ row.upc = input.upc
    /\ row.price_cents = input.price_cents
    /\ (IF row.observed_at >= observedAt THEN row.observed_at - observedAt
        ELSE observedAt - row.observed_at) <= DedupeWindowSec

\* The history query, ORDER BY observed_at DESC LIMIT 25: the sets of rows it
\* can return.  Rows that tie on observed_at at the cut come in either order.
recentHistory(table, store_id, upc) ==
    LET all == RowsOf(table, store_id, upc)
        atLeast(v) == {i \in all : table[i].observed_at >= v}
    IN  IF Cardinality(all) <= HistLimit THEN {all}
        ELSE LET cut == CHOOSE v \in {table[i].observed_at : i \in all} :
                            /\ Cardinality(atLeast(v)) >= HistLimit
                            /\ Cardinality(atLeast(v + 1)) < HistLimit
                 above == atLeast(cut + 1)
                 ties == atLeast(cut) \ above
             IN  {above \cup some :
                    some \in {x \in SUBSET ties :
                                Cardinality(x) = HistLimit - Cardinality(above)}}

RECURSIVE PricesOf(_, _)
\* hist.results.map((r) => r.price_cents)
PricesOf(table, rows) ==
    IF rows = {} THEN <<>>
    ELSE LET i == CHOOSE x \in rows : TRUE
         IN  <<table[i].price_cents>> \o PricesOf(table, rows \ {i})

\* isOutlier with the band taken exactly, without Math.floor.
isOutlierExact(med, price_cents) ==
    med # NullNumber /\ (10 * price_cents < 3 * med \/ price_cents > 3 * med)

\* price_cents < Math.floor(med * 0.3) || price_cents > Math.ceil(med * 3.0),
\* when med is not null
isOutlier(med, price_cents) ==
    med # NullNumber /\ (price_cents < (3 * med) \div 10 \/ price_cents > 3 * med)

\* Concurrent submitPrice calls: the Worker serves requests of one session
\* at once, and each call awaits its SELECTs and its INSERT one by one, so
\* the steps of another call may come between them.
NoSubmit == [pc |-> "idle"]

SubmitRaceIdle == [w \in Callers |-> NoSubmit]

\* crypto.randomUUID(): an id no row has.
NewId(table) == Len(table) + 1

\* The number of submitPrice calls made so far.
SubmitCalls == IF submitRet = NoCall THEN 0 ELSE submitRet.n

SubmitReturn(input, outcome, snapshot_id, inserted) ==
    [n |-> SubmitCalls + 1, input |-> input, at |-> now, outcome |-> outcome,
     snapshot_id |-> snapshot_id, inserted |-> inserted]

\* INSERT OR REPLACE keyed on the store and UPC: the new row takes the place
\* of the rows the store already has for the UPC.
insertSupersedingSnapshot(table, row) ==
    Append(SelectSeq(table, LAMBDA r : ~(r.store_id = row.store_id /\ r.upc = row.upc)),
           row)

\* INSERT INTO price_snapshots of a row with a fresh id.
insertSnapshot(table, row) == Append(table, row)

\* One whole submitPrice call of session s1, not interleaved.
SubmitPrice(input) ==
    LET tok == takeToken(rate_limits["price_submit:s1"], RL_SUBMIT, now)
        t == now
        observedAt == IF input.observed_at = NoObservedAt THEN t ELSE input.observed_at
        dups == {i \in 1..Len(price_snapshots) :
                    isDuplicate(price_snapshots[i], input, observedAt)}
        fails(outcome) ==
            /\ submitRet' = SubmitReturn(input, outcome, 0, FALSE)
            /\ UNCHANGED price_snapshots
    IN  /\ SubmitCalls < MaxSubmits
        /\ rate_limits' = [rate_limits EXCEPT !["price_submit:s1"] = tok.row]
        /\ UNCHANGED <<now, stores, products, submitRace>>
        /\ IF ~tok.allowed THEN fails("RATE_LIMITED")
           ELSE IF input.store_id \notin stores THEN fails("STORE_NOT_FOUND")
           ELSE IF input.upc \notin products THEN fails("PRODUCT_NOT_FOUND")
           ELSE IF observedAt > t + FutureSkewSec THEN fails("OBSERVED_AT_IN_FUTURE")
           ELSE IF dups # {}
           THEN \E i \in dups :
                   /\ submitRet' = SubmitReturn(input, "ok", price_snapshots[i].id, FALSE)
                   /\ UNCHANGED price_snapshots
           ELSE \E hist \in recentHistory(price_snapshots, input.store_id, input.upc) :
                   IF isOutlier(median(PricesOf(price_snapshots, hist)), input.price_cents)
                   THEN fails("OUTLIER_PRICE")
                   ELSE /\ price_snapshots' = insertSnapshot(price_snapshots,
                              [id |-> NewId(price_snapshots),
                               store_id |-> input.store_id,
                               upc |-> input.upc,
                               price_cents |-> input.price_cents,
                               observed_at |-> observedAt,
                               source |-> "community",
                               evidence_type |-> input.evidence_type,
                               confidence |->
                                  clamp01(IF input.evidence_type = "receipt_text"
                                          THEN 60 ELSE 45),
                               created_at |-> t])
                        /\ submitRet' = SubmitReturn(input, "ok",
                                                     NewId(price_snapshots), TRUE)

\* How a concurrent call ended.
SubmitDone(c, outcome, snapshot_id, inserted) ==
    [pc |-> "done", input |-> c.input, t |-> c.t, observedAt |-> c.observedAt,
     saw |-> c.saw, outcome |-> outcome, snapshot_id |-> snapshot_id,
     inserted |-> inserted]

\* Lines 211-230: the rate limit, the store, the product and the timestamp.
SubmitBegin(w, input) ==
    LET tok == takeToken(rate_limits["price_submit:s1"], RL_SUBMIT, now)
        t == now
        observedAt == IF input.observed_at = NoObservedAt THEN t ELSE input.observed_at
        c == [pc |-> "dedupe", input |-> input, t |-> t, observedAt |-> observedAt,
              saw |-> 0]
        fails(outcome) ==
            submitRace' = [submitRace EXCEPT ![w] = SubmitDone(c, outcome, 0, FALSE)]
    IN  /\ submitRace[w].pc = "idle"
        /\ rate_limits' = [rate_limits EXCEPT !["price_submit:s1"] = tok.row]
        /\ UNCHANGED <<now, stores, products, price_snapshots, submitRet>>
        /\ IF ~tok.allowed THEN fails("RATE_LIMITED")
           ELSE IF input.store_id \notin stores THEN fails("STORE_NOT_FOUND")
           ELSE IF input.upc \notin products THEN fails("PRODUCT_NOT_FOUND")
           ELSE IF observedAt > t + FutureSkewSec THEN fails("OBSERVED_AT_IN_FUTURE")
           ELSE submitRace' = [submitRace EXCEPT ![w] = c]

\* Lines 233-242: the dedupe SELECT over the rows the table holds now.
SubmitDedupe(w) ==
    LET c == submitRace[w]
        dups == {i \in 1..Len(price_snapshots) :
                    isDuplicate(price_snapshots[i], c.input, c.observedAt)}
        seen == [c EXCEPT !.saw = Len(price_snapshots)]
    IN  /\ c.pc = "dedupe"
        /\ UNCHANGED <<now, rate_limits, stores, products, price_snapshots, submitRet>>
        /\ IF dups # {}
           THEN \E i \in dups :
                   submitRace' = [submitRace EXCEPT
                                    ![w] = SubmitDone(seen, "ok", price_snapshots[i].id, FALSE)]
           ELSE submitRace' = [submitRace EXCEPT ![w] = [seen EXCEPT !.pc = "history"]]

\* Lines 245-259: the history SELECT and the outlier check.
SubmitHistory(w) ==
    LET c == submitRace[w]
    IN  /\ c.pc = "history"
        /\ UNCHANGED <<now, rate_limits, stores, products, price_snapshots, submitRet>>
        /\ \E hist \in recentHistory(price_snapshots, c.input.store_id, c.input.upc) :
              IF isOutlier(median(PricesOf(price_snapshots, hist)), c.input.price_cents)
              THEN submitRace' = [submitRace EXCEPT
                                    ![w] = SubmitDone(c, "OUTLIER_PRICE", 0, FALSE)]
              ELSE submitRace' = [submitRace EXCEPT ![w] = [c EXCEPT !.pc = "insert"]]

\* Lines 261-288: the INSERT of a row with a fresh id, and the return.
SubmitInsert(w) ==
    LET c == submitRace[w]
    IN  /\ c.pc = "insert"
        /\ UNCHANGED <<now, rate_limits, stores, products, submitRet>>
        /\ price_snapshots' = insertSnapshot(price_snapshots,
                [id |-> NewId(price_snapshots),
                 store_id |-> c.input.store_id,
                 upc |-> c.input.upc,
                 price_cents |-> c.input.price_cents,
                 observed_at |-> c.observedAt,
                 source |-> "community",
                 evidence_type |-> c.input.evidence_type,
                 confidence |->
                    clamp01(IF c.input.evidence_type = "receipt_text" THEN 60 ELSE 45),
                 created_at |-> c.t])
        /\ submitRace' = [submitRace EXCEPT
                            ![w] = SubmitDone(c, "ok", NewId(price_snapshots), TRUE)]

(***************************************************************************)
(* Cart quotes, services/pricing.ts quoteCart.                             *)
(***************************************************************************)
MaxQuoteStores == 20
DaySec == 86400
MaxQuotes == 2        \* quoteCart calls made in a behaviour

\* RL_QUOTE in units of 1/2 token: capacity 60, refill 1/2 per second, cost 1.
RL_QUOTE == [capacity |-> 60 * 2, refillPerSec |-> 1, cost |-> 2]

\* null in a field that otherwise holds a store id (ids are not empty).
NullId == ""

freshnessBucket(t, observedAt) ==
    LET ageSec == Max(0, t - observedAt)
    IN  IF ageSec <= 2 * DaySec THEN "fresh"
        ELSE IF ageSec <= 7 * DaySec THEN "recent"
        ELSE IF ageSec <= 30 * DaySec THEN "stale"
        ELSE "old"

\* Math.round of the quotient p / q, for p >= 0 and q > 0.
Round(p, q) == (2 * p + q) \div (2 * q)

\* completeness, the fraction matched / itemCount, as numerator and
\* denominator; 0 when the cart is empty.
completenessOf(matched, itemCount) ==
    IF itemCount = 0 THEN [num |-> 0, den |-> 1]
    ELSE [num |-> matched, den |-> itemCount]

\* 2^s modulo n.
RECURSIVE pow2Mod(_, _)
pow2Mod(s, n) == IF s = 0 THEN 1 % n ELSE (2 * pow2Mod(s - 1, n)) % n

\* floor(log2(k)) for k >= 1.
RECURSIVE log2Floor(_)
log2Floor(k) == IF k < 2 THEN 0 ELSE 1 + log2Floor(k \div 2)

\* Math.round(total / (m / n)) in the doubles the code computes with, where
\* 1/4 < m/n < 1 and total * n / m is exactly x = k + 1/2.  The double c
\* nearest m/n is M * 2^(a-52) with 2^a <= m/n < 2^(a+1) and M the integer
\* nearest m * 2^(52-a) / n; rem is what the division leaves.
\*   rem = 0:      c = m/n, total / c is the double x, Math.round gives k + 1;
\*   2 rem < n:    c < m/n, total / c > x, Math.round gives k + 1;
\*   2 rem > n:    c > m/n by r = n - rem units, total / c is below x by
\*                 x r / (m 2^(52-a) + r); the nearest double is x when that is
\*                 under half the spacing 2^(e-52) of the doubles below x
\*                 (2^e <= x), which is (2k + 1) r <= m 2^(e-a), and is below x
\*                 otherwise, where Math.round gives k.
roundHalfwayQuotient(total, m, n) ==
    LET k == (total * n) \div m
        s == IF 2 * m >= n THEN 53 ELSE 54
        rem == (m * pow2Mod(s, n)) % n
        r == n - rem
        e == log2Floor(k)
    IN  IF 2 * rem < n THEN k + 1
        ELSE IF (2 * k + 1) * r <= m * Pow2(e + s - 52) THEN k + 1
        ELSE k

\* Math.round(total / Math.max(0.25, completeness)), completeness the double
\* nearest num / den.  total / 0.25 is exact; a quotient that is not halfway
\* between two integers is further from the halfway point than the doubles'
\* rounding error, so Math.round gives its nearest integer.
adjustedTotal(total, completeness) ==
    LET m == completeness.num
        n == completeness.den
    IN  IF 4 * m <= n THEN 4 * total
        ELSE IF (2 * total * n) % m = 0 /\ (total * n) % m # 0
        THEN roundHalfwayQuotient(total, m, n)
        ELSE Round(total * n, m)

\* Array.from(ids), without the Set: duplicates are kept.
keepDuplicateIds(ids) == ids

\* Array.from(new Set(ids)): the ids in order of first occurrence.
RECURSIVE uniqueIds(_)
uniqueIds(ids) ==
    IF ids = <<>> THEN <<>>
    ELSE LET front == uniqueIds(SubSeq(ids, 1, Len(ids) - 1))
             last == ids[Len(ids)]
         IN  IF \E i \in 1..Len(front) : front[i] = last THEN front
             ELSE Append(front, last)

\* The rows the query may give rn = 1 for one store and UPC: the latest
\* observed_at, then the highest confidence; rows equal in both tie.
bestRows(table, store_id, upc) ==
    LET part == {i \in 1..Len(table) :
                    table[i].store_id = store_id /\ table[i].upc = upc}
    IN  {i \in part : \A j \in part :
            \/ table[i].observed_at > table[j].observed_at
            \/ /\ table[i].observed_at = table[j].observed_at
               /\ table[i].confidence >= table[j].confidence}

missingLine(it) ==
    [upc |-> it.upc, quantity |-> it.quantity, missing |-> TRUE,
     unit_price_cents |-> NullNumber, extended_price_cents |-> NullNumber,
     observed_at |-> NullNumber, source |-> "null", evidence_type |-> "null",
     confidence |-> NullNumber, freshness |-> "null"]

\* pricedLine whose extended price ignores the quantity.
pricedLineUnitOnly(it, p, t) ==
    [upc |-> it.upc, quantity |-> it.quantity, missing |-> FALSE,
     unit_price_cents |-> p.price_cents,
     extended_price_cents |-> p.price_cents,
     observed_at |-> p.observed_at, source |-> p.source,
     evidence_type |-> p.evidence_type,
     confidence |-> clamp01(p.confidence),
     freshness |-> freshnessBucket(t, p.observed_at)]

pricedLine(it, p, t) ==
    [upc |-> it.upc, quantity |-> it.quantity, missing |-> FALSE,
     unit_price_cents |-> p.price_cents,
     extended_price_cents |-> p.price_cents * it.quantity,
     observed_at |-> p.observed_at, source |-> p.source,
     evidence_type |-> p.evidence_type,
     confidence |-> clamp01(p.confidence),
     freshness |-> freshnessBucket(t, p.observed_at)]

\* The lines one store's price query and the map over the cart can give.
RECURSIVE quoteLines(_, _, _, _)
quoteLines(table, store_id, cartItems, t) ==
    IF cartItems = <<>> THEN {<<>>}
    ELSE LET it == Head(cartItems)
             best == bestRows(table, store_id, it.upc)
             firsts == IF best = {} THEN {missingLine(it)}
                       ELSE {pricedLine(it, table[i], t) : i \in best}
         IN  {<<l>> \o rest :
                l \in firsts,
                rest \in quoteLines(table, store_id, Tail(cartItems), t)}

RECURSIVE sumExtended(_)
sumExtended(lines) ==
    IF lines = <<>> THEN 0
    ELSE (IF Head(lines).missing THEN 0 ELSE Head(lines).extended_price_cents)
            + sumExtended(Tail(lines))

\* The entry pushed to outStores for one store.
quoteStore(store_id, lines) ==
    LET itemCount == Len(lines)
        matched == Cardinality({i \in 1..itemCount : ~lines[i].missing})
        total == sumExtended(lines)
        completeness == completenessOf(matched, itemCount)
    IN  [store_id |-> store_id, item_count |-> itemCount,
         matched_count |-> matched, missing_count |-> itemCount - matched,
         completeness |-> completeness, total_cents |-> total,
         adjusted_total_cents |-> adjustedTotal(total, completeness),
         lines |-> lines]

\* The values outStores can take over the resolved store ids.
RECURSIVE quoteStores(_, _, _, _)
quoteStores(table, storeIds, cartItems, t) ==
    IF storeIds = <<>> THEN {<<>>}
    ELSE {<<quoteStore(Head(storeIds), lines)>> \o rest :
            lines \in quoteLines(table, Head(storeIds), cartItems, t),
            rest \in quoteStores(table, Tail(storeIds), cartItems, t)}

\* a.completeness - b.completeness as a sign.
compareCompleteness(a, b) ==
    LET l == a.completeness.num * b.completeness.den
        r == b.completeness.num * a.completeness.den
    IN  IF l = r THEN 0 ELSE IF l < r THEN -1 ELSE 1

\* A comparator that ranks by adjusted total alone.
compareStoresByAdjusted(a, b) ==
    IF a.adjusted_total_cents # b.adjusted_total_cents
    THEN a.adjusted_total_cents - b.adjusted_total_cents
    ELSE a.total_cents - b.total_cents

\* The sort comparator: negative when a ranks before b.
compareStores(a, b) ==
    IF compareCompleteness(a, b) # 0 THEN compareCompleteness(b, a)
    ELSE IF a.adjusted_total_cents # b.adjusted_total_cents
    THEN a.adjusted_total_cents - b.adjusted_total_cents
    ELSE a.total_cents - b.total_cents

\* x put into the ranked sequence after every entry it does not precede.
RECURSIVE insertRanked(_, _)
insertRanked(ranked, x) ==
    IF ranked = <<>> THEN <<x>>
    ELSE IF compareStores(x, ranked[Len(ranked)]) < 0
    THEN Append(insertRanked(SubSeq(ranked, 1, Len(ranked) - 1), x),
                ranked[Len(ranked)])
    ELSE Append(ranked, x)

\* [...outStores].sort(comparator): a stable sort.
RECURSIVE rankStores(_)
rankStores(outStores) ==
    IF outStores = <<>> THEN <<>>
    ELSE insertRanked(rankStores(SubSeq(outStores, 1, Len(outStores) - 1)),
                      outStores[Len(outStores)])

\* The number of quoteCart calls made so far.
QuoteCalls == IF quoteRet = NoCall THEN 0 ELSE quoteRet.n

\* One whole quoteCart call of session s1, not interleaved.
QuoteCart(store_ids) ==
    LET tok == takeToken(rate_limits["quote:s1"], RL_QUOTE, now)
        unique == uniqueIds(store_ids)
        storeIds == SubSeq(unique, 1, Min(Len(unique), MaxQuoteStores))
        cartItems == cart_items
        t == now
        resolvedStoreIds == SelectSeq(storeIds, LAMBDA id : id \in stores)
        missingStores == SelectSeq(storeIds, LAMBDA id : id \notin stores)
        warnings ==
            (IF Len(cartItems) = 0
             THEN <<[code |-> "CART_EMPTY", store_ids |-> <<>>]>> ELSE <<>>)
            \o (IF Len(missingStores) # 0
                THEN <<[code |-> "UNKNOWN_STORES", store_ids |-> missingStores]>>
                ELSE <<>>)
    IN  /\ QuoteCalls < MaxQuotes
        /\ rate_limits' = [rate_limits EXCEPT !["quote:s1"] = tok.row]
        /\ UNCHANGED <<now, stores, products, price_snapshots, submitRet, submitRace, cart_items>>
        /\ IF ~tok.allowed
           THEN quoteRet' = [n |-> QuoteCalls + 1, store_ids |-> store_ids,
                             outcome |-> "RATE_LIMITED"]
           ELSE \E outStores \in quoteStores(price_snapshots, resolvedStoreIds,
                                             cartItems, t) :
                   LET ranked == rankStores(outStores)
                   IN  quoteRet' =
                          [n |-> QuoteCalls + 1, store_ids |-> store_ids,
                           outcome |-> "ok", generated_at |-> t,
                           cheapest_store_id |->
                              IF Len(ranked) # 0 THEN ranked[1].store_id ELSE NullId,
                           stores |-> outStores, ranked |-> ranked,
                           warnings |-> warnings]

(***************************************************************************)
(* Store discovery, services/storeDiscovery.ts storeSearch, with the        *)
(* providers it calls (providers/nominatim.ts geocode, providers/overpass.ts*)
(* queryNearbyStores).  Places lie on one meridian: a place is              *)
(* {lat, lon |-> 0} with lat in metres, and distanceMeters is the           *)
(* difference of the lats.  fetchWithRetry is taken by its result.          *)
(***************************************************************************)
TTL_GEOCODE_SEC == 60 * 60 * 24 * 30
TTL_STORES_SEC == 60 * 60 * 24
MinRadius == 250
MaxRadius == 20000
MaxStoresReturned == 50
MaxSearches == 2      \* storeSearch calls made

\* {capacity: 10, refillPerSec: 1/10, cost: 1} in units of 1/10 token.
RL_GEOCODE == [capacity |-> 10 * 10, refillPerSec |-> 1, cost |-> 10]
\* {capacity: 10, refillPerSec: 1/30, cost: 1} in units of 1/30 token.
RL_OVERPASS == [capacity |-> 10 * 30, refillPerSec |-> 1, cost |-> 30]

\* No error raised.
NoError == ""

\* The rows of table stores: the seeded ones (migration 0002, source 'seed')
\* and the ones storeSearch upserts (ids "osm:<type>/<id>", source 'osm').
OsmStores == {"osm:node/1", "osm:node/2"}
StoreSource(id) == IF id \in OsmStores THEN "osm" ELSE "seed"
StoreLat(id) ==
    CASE id = "A" -> 0
      [] id = "B" -> 1000
      [] id = "C" -> 5000
      [] id = "osm:node/1" -> 200
      [] id = "osm:node/2" -> 3000
      [] OTHER -> 0

Place(lat) == [lat |-> lat, lon |-> 0]
distanceMeters(a, b) == IF a.lat >= b.lat THEN a.lat - b.lat ELSE b.lat - a.lat

\* input.location.trim().toLowerCase()
Locations == {"x", " X "}
locNorm(location) == IF location = " X " THEN "x" ELSE location

\* The cache keys; sha256Base64Url is taken as injective and left out.
geoKey(location) == "geo:" \o locNorm(location)
storesKey(center, radius) ==
    "stores:" \o ToString(center.lat) \o "," \o ToString(center.lon)
        \o ":r=" \o ToString(radius)

clampRadius(radius_m) == Min(Max(radius_m, MinRadius), MaxRadius)

\* What the upstream of a provider call does: for Nominatim a JSON array
\* with a first hit at lat, an empty array, or a failure of fetchWithRetry,
\* of performGet or of res.json().
BadUpstream == {"timeout", "http_503", "parse_error"}
GeocodeUpstream ==
    [kind : {"found"}, lat : {100}]
      \cup [kind : {"empty"} \cup BadUpstream, lat : {NullNumber}]

\* geocode with the breaker check inside the try: a call refused by the open
\* breaker is counted as a failure.
geocodeOpenCounted(row, t, upstream) ==
    IF isOpen(row, t)
    THEN [health |-> recordFailure(row, DefaultOpts, t), error |-> "PROVIDER_OPEN",
          lat |-> NullNumber]
    ELSE IF upstream.kind = "found"
    THEN [health |-> recordSuccess(row), error |-> NoError, lat |-> upstream.lat]
    ELSE IF upstream.kind = "empty"
    THEN [health |-> recordFailure(recordSuccess(row), DefaultOpts, t),
          error |-> "NOT_FOUND", lat |-> NullNumber]
    ELSE [health |-> recordFailure(row, DefaultOpts, t),
          error |-> upstream.kind, lat |-> NullNumber]

\* geocode(env, location) on the provider_health row of "nominatim":
\* the row it leaves, the error it throws (NoError if none), and its result.
geocode(row, t, upstream) ==
    IF isOpen(row, t)
    THEN [health |-> row, error |-> "PROVIDER_OPEN", lat |-> NullNumber]
    ELSE IF upstream.kind = "found"
    THEN [health |-> recordSuccess(row), error |-> NoError, lat |-> upstream.lat]
    ELSE IF upstream.kind = "empty"
    THEN [health |-> recordFailure(recordSuccess(row), DefaultOpts, t),
          error |-> "NOT_FOUND", lat |-> NullNumber]
    ELSE [health |-> recordFailure(row, DefaultOpts, t),
          error |-> upstream.kind, lat |-> NullNumber]

\* For Overpass: the elements of the JSON answer, or a failure.
OverpassElements ==
    {<<>>,
     <<[type |-> "node", id |-> 2], [type |-> "way", id |-> 7],
       [type |-> "node", id |-> 1]>>}
OverpassUpstream ==
    [kind : {"ok"}, elements : OverpassElements]
      \cup [kind : BadUpstream, elements : {<<>>}]

externalId(e) == "osm:" \o e.type \o "/" \o ToString(e.id)

\* queryNearbyStores(env, center, radiusM) on the provider_health row of
\* "overpass": the row it leaves, the error it throws, the stores it returns.
queryNearbyStores(row, t, upstream) ==
    IF isOpen(row, t)
    THEN [health |-> row, error |-> "PROVIDER_OPEN", stores |-> <<>>]
    ELSE IF upstream.kind = "ok"
    THEN [health |-> recordSuccess(row), error |-> NoError,
          stores |-> [i \in 1..Len(SelectSeq(upstream.elements,
                                             LAMBDA e : e.type = "node")) |->
                         externalId(SelectSeq(upstream.elements,
                                              LAMBDA e : e.type = "node")[i])]]
    ELSE [health |-> recordFailure(row, DefaultOpts, t), error |-> upstream.kind,
          stores |-> <<>>]

\* A store of a response, and the stable sort by distance_m ascending.
storeAt(id, center) ==
    [id |-> id, lat |-> StoreLat(id), lon |-> 0,
     distance_m |-> distanceMeters(center, Place(StoreLat(id)))]

insertByDistance(sorted, x) ==
    LET k == Cardinality({i \in 1..Len(sorted) : sorted[i].distance_m <= x.distance_m})
    IN  SubSeq(sorted, 1, k) \o <<x>> \o SubSeq(sorted, k + 1, Len(sorted))

RECURSIVE sortByDistance(_)
sortByDistance(list) ==
    IF list = <<>> THEN <<>>
    ELSE insertByDistance(sortByDistance(SubSeq(list, 1, Len(list) - 1)),
                          list[Len(list)])

\* centerFromSeedRows(rows): the mean place of the rows.
RECURSIVE sumLat(_)
sumLat(rows) == IF rows = <<>> THEN 0 ELSE StoreLat(Head(rows)) + sumLat(Tail(rows))
centerFromSeedRows(rows) == Place(sumLat(rows) \div Len(rows))

\* An error thrown in place of a response.
Thrown(error) ==
    [outcome |-> "error", error |-> error, data_mode |-> "", center |-> Place(0),
     radius_m |-> 0, stores |-> <<>>]

Response(data_mode, center, radius, list) ==
    [outcome |-> "ok", error |-> NoError, data_mode |-> data_mode,
     center |-> center, radius_m |-> radius, stores |-> list]

\* seedResponse that keeps only the seed stores within the radius.
seedResponseWithinRadius(rows, radius, centerOverride) ==
    IF centerOverride = Null /\ rows = <<>> THEN Thrown("NO_SEED_STORES")
    ELSE LET center == IF centerOverride # Null THEN centerOverride
                       ELSE centerFromSeedRows(rows)
             near == SelectSeq(rows, LAMBDA id :
                         distanceMeters(center, Place(StoreLat(id))) <= radius)
         IN  Response("seed", center, radius,
                 sortByDistance([i \in 1..Len(near) |-> storeAt(near[i], center)]))

\* seedResponse(env, radius, centerOverride) on the rows its SELECT returned
\* (the ids of the stores with source 'seed', in the order of the result).
seedResponse(rows, radius, centerOverride) ==
    IF centerOverride = Null /\ rows = <<>> THEN Thrown("NO_SEED_STORES")
    ELSE LET center == IF centerOverride # Null THEN centerOverride
                       ELSE centerFromSeedRows(rows)
         IN  Response("seed", center, radius,
                 sortByDistance([i \in 1..Len(rows) |-> storeAt(rows[i], center)]))

\* The ways a SELECT without ORDER BY can return the rows of S.
Orderings(S) ==
    {f \in [1..Cardinality(S) -> S] : \A i, j \in 1..Cardinality(S) : f[i] = f[j] => i = j}

SeedStoresOf(table) == {id \in table : StoreSource(id) = "seed"}

\* 1) of storeSearch: the center from the geocode cache, or from geocode
\* behind the session's bucket.  error is what storeSearch throws at once,
\* geocodeError what geocode threw.
searchCenter(cache, rl, health, input, t, geo) ==
    LET key == geoKey(input.location)
        hit == cacheGet(cache[key], t)
        tok == takeToken(rl["rl:s1:nominatim"], RL_GEOCODE, t)
        rl1 == [rl EXCEPT !["rl:s1:nominatim"] = tok.row]
        g == geocode(health["nominatim"], t, geo)
        health1 == [health EXCEPT !["nominatim"] = g.health]
    IN  IF hit # Null
        THEN [cache |-> cache, rl |-> rl, health |-> health, center |-> hit,
              geoCached |-> TRUE, error |-> NoError, geocodeError |-> NoError]
        ELSE IF ~tok.allowed
        THEN [cache |-> cache, rl |-> rl1, health |-> health, center |-> Null,
              geoCached |-> FALSE, error |-> "RATE_LIMIT_GEOCODE",
              geocodeError |-> NoError]
        ELSE IF g.error # NoError
        THEN [cache |-> cache, rl |-> rl1, health |-> health1, center |-> Null,
              geoCached |-> FALSE, error |-> NoError, geocodeError |-> g.error]
        ELSE [cache |-> [cache EXCEPT ![key] =
                            cachePut(Place(g.lat), TTL_GEOCODE_SEC, t)],
              rl |-> rl1, health |-> health1, center |-> Place(g.lat),
              geoCached |-> FALSE, error |-> NoError, geocodeError |-> NoError]

\* 2) of storeSearch: the stores around the center from the stores cache,
\* else from Overpass behind the session's bucket, else the seed stores.
searchStores(cache, rl, health, table, center, radius, t, rows, osm) ==
    LET key == storesKey(center, radius)
        cached == cacheGet(cache[key], t)
        tok == takeToken(rl["rl:s1:overpass"], RL_OVERPASS, t)
        rl1 == [rl EXCEPT !["rl:s1:overpass"] = tok.row]
        q == queryNearbyStores(health["overpass"], t, osm)
        health1 == [health EXCEPT !["overpass"] = q.health]
        sorted == sortByDistance([i \in 1..Len(q.stores) |-> storeAt(q.stores[i], center)])
        list == SubSeq(sorted, 1, Min(MaxStoresReturned, Len(sorted)))
    IN  IF cached # Null /\ cached.stores # <<>>
        THEN [ret |-> Response("cache", center, radius, cached.stores),
              cache |-> cache, rl |-> rl, health |-> health, stores |-> table,
              overpassDenied |-> FALSE, overpassError |-> NoError]
        ELSE IF ~tok.allowed
        THEN [ret |-> seedResponse(rows, radius, center),
              cache |-> cache, rl |-> rl1, health |-> health, stores |-> table,
              overpassDenied |-> TRUE, overpassError |-> NoError]
        ELSE IF q.error # NoError
        THEN [ret |-> seedResponse(rows, radius, center),
              cache |-> cache, rl |-> rl1, health |-> health1, stores |-> table,
              overpassDenied |-> FALSE, overpassError |-> q.error]
        ELSE [ret |-> Response("live", center, radius, list),
              cache |-> [cache EXCEPT ![key] =
                            cachePut([stores |-> list], TTL_STORES_SEC, t)],
              rl |-> rl1, health |-> health1,
              stores |-> table \cup {list[i].id : i \in 1..Len(list)},
              overpassDenied |-> FALSE, overpassError |-> NoError]

\* storeSearch(env, input) of session s1 on the tables it reads; rows is the
\* result of seedResponse's SELECT, geo and osm what the upstreams do.
storeSearch(cache, rl, health, table, input, t, rows, geo, osm) ==
    LET radius == clampRadius(input.radius_m)
        c == searchCenter(cache, rl, health, input, t, geo)
        fallback == seedResponse(rows, radius, Null)
    IN  IF c.error # NoError
        THEN [ret |-> Thrown(c.error), cache |-> c.cache, rl |-> c.rl,
              health |-> c.health, stores |-> table,
              overpassDenied |-> FALSE, overpassError |-> NoError]
        ELSE IF c.geocodeError # NoError
        THEN [ret |-> IF fallback.outcome = "ok" THEN fallback
                      ELSE Thrown(c.geocodeError),
              cache |-> c.cache, rl |-> c.rl, health |-> c.health, stores |-> table,
              overpassDenied |-> FALSE, overpassError |-> NoError]
        ELSE searchStores(c.cache, c.rl, c.health, table, c.center, radius, t,
                          rows, osm)

SearchInputs ==
    [location : Locations, radius_m : {100}] \cup [location : {"x"}, radius_m : {30000}]

SearchCalls == IF searchRet = NoCall THEN 0 ELSE searchRet.n

\* One whole storeSearch call of session s1, not interleaved.
StoreSearch(input, geo, osm) ==
    /\ SearchCalls < MaxSearches
    /\ \E rows \in Orderings(SeedStoresOf(stores)) :
          LET r == storeSearch(query_cache, rate_limits, provider_health, stores,
                               input, now, rows, geo, osm)
              c == searchCenter(query_cache, rate_limits, provider_health,
                                input, now, geo)
          IN  /\ query_cache' = r.cache
              /\ rate_limits' = r.rl
              /\ provider_health' = r.health
              /\ stores' = r.stores
              /\ searchRet' = [op |-> "storeSearch", n |-> SearchCalls + 1,
                               input |-> input, at |-> now,
                               geoCached |-> c.geoCached,
                               geocodeError |-> c.geocodeError,
                               denied |->
                                  (IF c.error = "RATE_LIMIT_GEOCODE"
                                   THEN {"rl:s1:nominatim"} ELSE {})
                                     \cup (IF r.overpassDenied
                                           THEN {"rl:s1:overpass"} ELSE {}),
                               overpassError |-> r.overpassError,
                               seedStores |-> SeedStoresOf(stores),
                               ret |-> r.ret]
    /\ UNCHANGED <<now, products, price_snapshots, submitRet, submitRace>>

(***************************************************************************)
(* Product catalog, services/productCatalog.ts lookupProduct and            *)
(* searchProducts, with the provider they call (providers/openFoodFacts.ts).*)
(* A product keeps the members upc, name, source and updated_at.            *)
(***************************************************************************)
TTL_UPC_SEC == 60 * 60 * 24 * 7
TTL_SEARCH_SEC == 60 * 60 * 6
MaxPage == 25
MaxCatalogCalls == 2  \* lookupProduct and searchProducts calls made

\* {capacity: 10, refillPerSec: 1/6, cost: 1} in units of 1/6 token.
RL_OFF_LOOKUP == [capacity |-> 10 * 6, refillPerSec |-> 1, cost |-> 6]
\* {capacity: 5, refillPerSec: 1/12, cost: 1} in units of 1/12 token.
RL_OFF_SEARCH == [capacity |-> 5 * 12, refillPerSec |-> 1, cost |-> 12]

\* The UPCs of the model stand for strings of 8 to 14 digits; these do not.
BadCodes == {"12ab", ""}
isUpc(code) == code \notin BadCodes

\* upc.trim()
trimUpc(upc) == IF upc = " milk " THEN "milk" ELSE upc

\* The row of a seeded product (migration 0004).
SeedProduct(upc) == [source |-> "seed", name |-> upc, updated_at |-> 0]

\* What Open Food Facts does on a lookup: a product (code "" standing for an
\* answer without code, product_name "" for one without name), status 0,
\* a body that does not match the schema, or a failure of the fetch.
OffLookupUpstream ==
    {[kind |-> "found", code |-> "", product_name |-> "Milk 1L"],
     [kind |-> "found", code |-> "eggs", product_name |-> ""]}
      \cup [kind : {"status0", "schema"} \cup BadUpstream, code : {""},
            product_name : {""}]

\* offLookupByUpc(env, upc) on the provider_health row of "openfoodfacts".
offLookupByUpc(row, t, upstream, upc) ==
    IF isOpen(row, t)
    THEN [health |-> row, error |-> "PROVIDER_OPEN", raw |-> Null]
    ELSE IF upstream.kind = "found"
    THEN [health |-> recordSuccess(row), error |-> NoError,
          raw |-> [code |-> IF upstream.code = "" THEN upc ELSE upstream.code,
                   product_name |-> upstream.product_name]]
    ELSE [health |-> recordFailure(row, DefaultOpts, t),
          error |-> CASE upstream.kind = "status0" -> "NOT_FOUND"
                      [] upstream.kind = "schema" -> "OFF_SCHEMA"
                      [] OTHER -> upstream.kind,
          raw |-> Null]

toCanonicalProduct(raw, t) ==
    [upc |-> raw.code,
     name |-> IF raw.product_name = "" THEN "Unknown product" ELSE raw.product_name,
     source |-> "openfoodfacts",
     updated_at |-> t]

\* Table products after upsertProduct(db, p, rawHash).
upsertProduct(rows, p) ==
    [u \in DOMAIN rows \cup {p.upc} |->
        IF u = p.upc
        THEN [source |-> p.source, name |-> p.name, updated_at |-> p.updated_at]
        ELSE rows[u]]

\* Table product_provider_payloads after recordRawPayload; the hash of the
\* raw fields is taken as the fields themselves.
recordRawPayload(payloads, provider, upc, raw, t) ==
    {r \in payloads : ~(r.provider = provider /\ r.upc = upc)}
      \cup {[provider |-> provider, upc |-> upc, raw_hash |-> raw, fetched_at |-> t]}

\* readProductFromDb(db, upc)
readProductFromDb(rows, upc) ==
    IF upc \in DOMAIN rows
    THEN [upc |-> upc, name |-> rows[upc].name, source |-> rows[upc].source,
          updated_at |-> rows[upc].updated_at]
    ELSE Null

validateUpc(upc) == IF isUpc(trimUpc(upc)) THEN trimUpc(upc) ELSE "INVALID_UPC"

lookupKey(upc) == "off:product:" \o upc

\* A lookup or search that threw.
CatalogThrown(error) ==
    [outcome |-> "error", error |-> error, data_mode |-> "", cache_state |-> "",
     body |-> Null]

CatalogResponse(data_mode, cache_state, body) ==
    [outcome |-> "ok", error |-> NoError, data_mode |-> data_mode,
     cache_state |-> cache_state, body |-> body]

\* The tables the catalog works on.
CatalogDb(cache, rl, health, rows, payloads) ==
    [cache |-> cache, rl |-> rl, health |-> health, rows |-> rows,
     payloads |-> payloads]

\* refreshLookup(env, upc, sessionId) of session s1: what it returns or
\* throws, and the tables it leaves.
refreshLookup(db, upc, t, upstream) ==
    LET tok == takeToken(db.rl["rl:s1:openfoodfacts:lookup"], RL_OFF_LOOKUP, t)
        rl1 == [db.rl EXCEPT !["rl:s1:openfoodfacts:lookup"] = tok.row]
        o == offLookupByUpc(db.health["openfoodfacts"], t, upstream, upc)
        health1 == [db.health EXCEPT !["openfoodfacts"] = o.health]
        p == toCanonicalProduct(o.raw, t)
        resp == CatalogResponse("live", "fresh", [product |-> p])
    IN  IF ~tok.allowed
        THEN [ret |-> CatalogThrown("RATE_LIMIT_OFF_LOOKUP"),
              db |-> [db EXCEPT !.rl = rl1]]
        ELSE IF o.error # NoError
        THEN [ret |-> CatalogThrown(o.error),
              db |-> [db EXCEPT !.rl = rl1, !.health = health1]]
        ELSE [ret |-> resp,
              db |-> CatalogDb(
                        [db.cache EXCEPT ![lookupKey(upc)] =
                            cachePut(resp, TTL_UPC_SEC, t)],
                        rl1, health1, upsertProduct(db.rows, p),
                        recordRawPayload(db.payloads, "openfoodfacts", upc, o.raw, t))]

\* lookupFallback that tags every stored row as cache.
lookupFallbackAsCache(rows, upc, thrown) ==
    LET fallback == readProductFromDb(rows, upc)
    IN  IF fallback # Null
        THEN CatalogResponse("cache", "", [product |-> fallback])
        ELSE thrown

\* The fallback of lookupProduct when refreshLookup threw.
lookupFallback(rows, upc, thrown) ==
    LET fallback == readProductFromDb(rows, upc)
    IN  IF fallback # Null
        THEN CatalogResponse(IF fallback.source = "seed" THEN "seed" ELSE "cache",
                             "", [product |-> fallback])
        ELSE thrown

\* {...peek.payload, data_mode: "cache", cache_state}
servedFromCache(peek) ==
    CatalogResponse("cache", IF peek.is_fresh THEN "fresh" ELSE "stale",
                    peek.payload.body)

\* A refresh handed to execCtx.waitUntil.
LookupTask(upc) == [kind |-> "lookup", upc |-> upc, q |-> "", page |-> 0,
                    pageSize |-> 0, cacheKey |-> lookupKey(upc)]

\* lookupProduct(env, input, execCtx) of session s1: what it returns or
\* throws, the tables it leaves, and the refresh it hands to waitUntil.
lookupProduct(db, input, execCtx, t, upstream) ==
    LET upc == validateUpc(input.upc)
        peek == cachePeek(db.cache[lookupKey(upc)], t)
        live == refreshLookup(db, upc, t, upstream)
    IN  IF upc = "INVALID_UPC"
        THEN [ret |-> CatalogThrown("INVALID_UPC"), db |-> db, tasks |-> <<>>]
        ELSE IF peek # Null /\ peek.is_fresh
        THEN [ret |-> servedFromCache(peek), db |-> db, tasks |-> <<>>]
        ELSE IF peek # Null
        THEN [ret |-> servedFromCache(peek), db |-> db,
              tasks |-> IF execCtx THEN <<LookupTask(upc)>> ELSE <<>>]
        ELSE IF live.ret.outcome = "ok"
        THEN [ret |-> live.ret, db |-> live.db, tasks |-> <<>>]
        ELSE [ret |-> lookupFallback(live.db.rows, upc, live.ret),
              db |-> live.db, tasks |-> <<>>]

\* What Open Food Facts does on a search.
OffSearchUpstream ==
    [kind : {"ok"},
     products : {<<>>,
                 <<[code |-> "milk", product_name |-> "Milk 1L"],
                   [code |-> "12ab", product_name |-> ""],
                   [code |-> "rice", product_name |-> ""]>>}]
      \cup [kind : {"schema"} \cup BadUpstream, products : {<<>>}]

\* offSearch(env, q, page, pageSize) on the provider_health row of
\* "openfoodfacts"; the answer carries no count, so total is the length.
offSearch(row, t, upstream) ==
    IF isOpen(row, t)
    THEN [health |-> row, error |-> "PROVIDER_OPEN", total |-> 0, products |-> <<>>]
    ELSE IF upstream.kind = "ok"
    THEN [health |-> recordSuccess(row), error |-> NoError,
          total |-> Len(upstream.products), products |-> upstream.products]
    ELSE [health |-> recordFailure(row, DefaultOpts, t),
          error |-> IF upstream.kind = "schema" THEN "OFF_SCHEMA" ELSE upstream.kind,
          total |-> 0, products |-> <<>>]

RECURSIVE upsertProducts(_, _)
upsertProducts(rows, list) ==
    IF list = <<>> THEN rows
    ELSE upsertProducts(upsertProduct(rows, Head(list)), Tail(list))

\* q.trim() and q.toLowerCase()
trimQuery(q) == IF q = " Milk" THEN "Milk" ELSE q
lowerQuery(q) == IF q = "Milk" THEN "milk" ELSE q
ShortQueries == {"m"}

clampPage(n) == Max(1, Min(n, MaxPage))

searchKey(q, page, pageSize) ==
    "off:search:" \o lowerQuery(q) \o ":p=" \o ToString(page) \o ":s="
        \o ToString(pageSize)

\* refreshSearch(env, q, page, pageSize, sessionId, cacheKey) of session s1.
refreshSearch(db, q, page, pageSize, cacheKey, t, upstream) ==
    LET tok == takeToken(db.rl["rl:s1:openfoodfacts:search"], RL_OFF_SEARCH, t)
        rl1 == [db.rl EXCEPT !["rl:s1:openfoodfacts:search"] = tok.row]
        result == offSearch(db.health["openfoodfacts"], t, upstream)
        health1 == [db.health EXCEPT !["openfoodfacts"] = result.health]
        valid == SelectSeq(result.products, LAMBDA p : isUpc(p.code))
        found == [i \in 1..Len(valid) |-> toCanonicalProduct(valid[i], t)]
        resp == CatalogResponse("live", "fresh",
                    [query |-> q, page |-> page, page_size |-> pageSize,
                     total |-> result.total, products |-> found])
    IN  IF ~tok.allowed
        THEN [ret |-> CatalogThrown("RATE_LIMIT_OFF_SEARCH"),
              db |-> [db EXCEPT !.rl = rl1]]
        ELSE IF result.error # NoError
        THEN [ret |-> CatalogThrown(result.error),
              db |-> [db EXCEPT !.rl = rl1, !.health = health1]]
        ELSE [ret |-> resp,
              db |-> CatalogDb(
                        [db.cache EXCEPT ![cacheKey] = cachePut(resp, TTL_SEARCH_SEC, t)],
                        rl1, health1, upsertProducts(db.rows, found), db.payloads)]

SearchTask(q, page, pageSize, cacheKey) ==
    [kind |-> "search", upc |-> "", q |-> q, page |-> page, pageSize |-> pageSize,
     cacheKey |-> cacheKey]

\* searchProducts(env, input, execCtx) of session s1.
searchProducts(db, input, execCtx, t, upstream) ==
    LET q == trimQuery(input.q)
        page == clampPage(input.page)
        pageSize == clampPage(input.page_size)
        cacheKey == searchKey(q, page, pageSize)
        peek == cachePeek(db.cache[cacheKey], t)
        live == refreshSearch(db, q, page, pageSize, cacheKey, t, upstream)
    IN  IF q \in ShortQueries
        THEN [ret |-> CatalogThrown("INVALID_QUERY"), db |-> db, tasks |-> <<>>]
        ELSE IF peek # Null /\ peek.is_fresh
        THEN [ret |-> servedFromCache(peek), db |-> db, tasks |-> <<>>]
        ELSE IF peek # Null
        THEN [ret |-> servedFromCache(peek), db |-> db,
              tasks |-> IF execCtx THEN <<SearchTask(q, page, pageSize, cacheKey)>>
                        ELSE <<>>]
        ELSE [ret |-> live.ret, db |-> live.db, tasks |-> <<>>]

\* What cachePeek gave the call: no entry, a fresh one, an expired one.
peekState(row, t) ==
    IF cachePeek(row, t) = Null THEN "miss"
    ELSE IF cachePeek(row, t).is_fresh THEN "fresh" ELSE "stale"

CatalogCalls == IF catRet = NoCall THEN 0 ELSE catRet.n

TheCatalogDb ==
    CatalogDb(query_cache, rate_limits, provider_health, product_rows,
              product_provider_payloads)

\* The tables become those of db.
CatalogWrite(db) ==
    /\ query_cache' = db.cache
    /\ rate_limits' = db.rl
    /\ provider_health' = db.health
    /\ product_rows' = db.rows
    /\ products' = DOMAIN db.rows
    /\ product_provider_payloads' = db.payloads

\* One whole lookupProduct call of session s1; the refresh it hands to
\* waitUntil runs later.
LookupProduct(input, execCtx, upstream) ==
    /\ CatalogCalls < MaxCatalogCalls
    /\ LET r == lookupProduct(TheCatalogDb, input, execCtx, now, upstream)
           upc == validateUpc(input.upc)
           live == refreshLookup(TheCatalogDb, upc, now, upstream)
           state == IF upc = "INVALID_UPC" THEN "invalid"
                    ELSE peekState(query_cache[lookupKey(upc)], now)
       IN  /\ CatalogWrite(r.db)
           /\ background' = background \o r.tasks
           /\ catRet' = [op |-> "lookupProduct", n |-> CatalogCalls + 1,
                         input |-> input, execCtx |-> execCtx, at |-> now,
                         peek |-> state,
                         payload |-> IF state \in {"fresh", "stale"}
                                     THEN cachePeek(query_cache[lookupKey(upc)], now).payload
                                     ELSE Null,
                         liveError |-> IF state = "miss" THEN live.ret.error
                                       ELSE NoError,
                         row |-> IF state = "miss"
                                 THEN readProductFromDb(live.db.rows, upc) ELSE Null,
                         triggered |-> r.tasks,
                         ret |-> r.ret]
    /\ UNCHANGED <<now, stores, price_snapshots, submitRet, submitRace>>

\* One whole searchProducts call of session s1.
SearchProducts(input, execCtx, upstream) ==
    /\ CatalogCalls < MaxCatalogCalls
    /\ LET r == searchProducts(TheCatalogDb, input, execCtx, now, upstream)
           q == trimQuery(input.q)
           key == searchKey(q, clampPage(input.page), clampPage(input.page_size))
           state == IF q \in ShortQueries THEN "invalid"
                    ELSE peekState(query_cache[key], now)
       IN  /\ CatalogWrite(r.db)
           /\ background' = background \o r.tasks
           /\ catRet' = [op |-> "searchProducts", n |-> CatalogCalls + 1,
                         input |-> input, execCtx |-> execCtx, at |-> now,
                         peek |-> state,
                         payload |-> IF state \in {"fresh", "stale"}
                                     THEN cachePeek(query_cache[key], now).payload
                                     ELSE Null,
                         liveError |-> IF state = "miss" THEN r.ret.error ELSE NoError,
                         row |-> Null,
                         triggered |-> r.tasks,
                         ret |-> r.ret]
    /\ UNCHANGED <<now, stores, price_snapshots, submitRet, submitRace>>

\* A refreshLookup handed to waitUntil runs to its end; what it throws is
\* dropped by its .catch(() => {}).
RunRefreshLookup(upstream) ==
    /\ background # <<>>
    /\ Head(background).kind = "lookup"
    /\ CatalogWrite(refreshLookup(TheCatalogDb, Head(background).upc, now, upstream).db)
    /\ background' = Tail(background)
    /\ UNCHANGED <<now, stores, price_snapshots, submitRet, submitRace, catRet>>

\* The same for a refreshSearch.
RunRefreshSearch(upstream) ==
    /\ background # <<>>
    /\ Head(background).kind = "search"
    /\ LET task == Head(background)
       IN  CatalogWrite(refreshSearch(TheCatalogDb, task.q, task.page, task.pageSize,
                                     task.cacheKey, now, upstream).db)
    /\ background' = Tail(background)
    /\ UNCHANGED <<now, stores, price_snapshots, submitRet, submitRace, catRet>>

(***************************************************************************)
(* Kroger live prices, services/krogerLivePrices.ts                         *)
(* getKrogerLivePriceOverlay, with the provider calls of providers/kroger.ts.*)
(* The call is a process: it resolves the location and the access token,    *)
(* then the workers of mapLimit take the UPCs one by one, then it returns.  *)
(***************************************************************************)
MAX_UPCS_PER_QUOTE == 25
TOKEN_MIN_TTL_SEC == 60
DefaultTokenTtlSec == 1800
PRICE_CACHE_TTL_SEC == 10 * 60
LOCATION_CACHE_MIN_FRESH_SEC == 90 * 24 * 60 * 60
MATCH_THRESHOLD_METERS == 700
OverlayConfidence == 95
MaxOverlays == 2      \* getKrogerLivePriceOverlay calls made

TOKEN_CACHE_KEY == "kroger:token:product.compact"

\* {capacity: 3, refillPerSec: 1/30, cost: 1} in units of 1/30 token.
RL_LOCATIONS == [capacity |-> 3 * 30, refillPerSec |-> 1, cost |-> 30]
\* {capacity: 25, refillPerSec: 1/2, cost: 1} in units of 1/2 token.
RL_PRODUCTS == [capacity |-> 25 * 2, refillPerSec |-> 1, cost |-> 2]
\* {capacity: 2, refillPerSec: 1/60, cost: 1} in units of 1/60 token.
RL_TOKEN == [capacity |-> 2 * 60, refillPerSec |-> 1, cost |-> 60]

\* env.KROGER_LIVE_PRICES_ENABLED ("undefined" when unset), lower-cased.
lowerFlag(v) == IF v = "TRUE" THEN "true" ELSE IF v = "undefined" THEN "" ELSE v
isEnabled(env) == lowerFlag(env.KROGER_LIVE_PRICES_ENABLED) \in {"1", "true", "yes"}
hasCreds(env) == env.KROGER_CLIENT_ID # "" /\ env.KROGER_CLIENT_SECRET # ""

\* The tables the overlay works on.
KrogerDb(cache, rl, health, mappings) ==
    [cache |-> cache, rl |-> rl, health |-> health, mappings |-> mappings]

\* What the Kroger API does on a call: an answer that parses, or a failure
\* (a status that is not ok, a body that does not parse, a failed fetch).
KrogerFailures == {"http_503", "parse_error"}

TokenUpstream ==
    [kind : {"ok"}, expires_in : {NullNumber, 120, 1800}]
      \cup [kind : KrogerFailures, expires_in : {NullNumber}]

\* fetchKrogerToken(db, opts) on the provider_health row of "kroger".
fetchKrogerToken(row, t, upstream) ==
    IF isOpen(row, t)
    THEN [health |-> row, error |-> "KROGER_CIRCUIT_OPEN", token |-> Null]
    ELSE IF upstream.kind = "ok"
    THEN [health |-> recordSuccess(row), error |-> NoError,
          token |-> [access_token |-> "tok", expires_in_sec |-> upstream.expires_in]]
    ELSE [health |-> recordFailure(row, DefaultOpts, t), error |-> upstream.kind,
          token |-> Null]

\* getAccessToken(env, session_id) of session s1.
getAccessToken(db, t, upstream) ==
    LET cached == cacheGet(db.cache[TOKEN_CACHE_KEY], t)
        tok == takeToken(db.rl["kroger:s1:token"], RL_TOKEN, t)
        rl1 == [db.rl EXCEPT !["kroger:s1:token"] = tok.row]
        f == fetchKrogerToken(db.health["kroger"], t, upstream)
        health1 == [db.health EXCEPT !["kroger"] = f.health]
        ttl == Max(TOKEN_MIN_TTL_SEC,
                   (IF f.token.expires_in_sec = NullNumber THEN DefaultTokenTtlSec
                    ELSE f.token.expires_in_sec) - 60)
        payload == [access_token |-> f.token.access_token, expires_at |-> t + ttl]
    IN  IF cached # Null /\ cached.expires_at > t + TOKEN_MIN_TTL_SEC
        THEN [db |-> db, error |-> NoError, token |-> cached.access_token]
        ELSE IF ~tok.allowed
        THEN [db |-> [db EXCEPT !.rl = rl1], error |-> "KROGER_RATE_LIMITED_TOKEN",
              token |-> ""]
        ELSE IF f.error # NoError
        THEN [db |-> [db EXCEPT !.rl = rl1, !.health = health1], error |-> f.error,
              token |-> ""]
        ELSE [db |-> [db EXCEPT !.rl = rl1, !.health = health1,
                                !.cache[TOKEN_CACHE_KEY] = cachePut(payload, ttl, t)],
              error |-> NoError, token |-> f.token.access_token]

\* getMappedLocationId(env, store_id): "" stands for null.
getMappedLocationId(mappings, store_id, t) ==
    IF mappings[store_id] = NoRow THEN ""
    ELSE IF t - mappings[store_id].verified_at < LOCATION_CACHE_MIN_FRESH_SEC
    THEN mappings[store_id].provider_location_id
    ELSE ""

\* The row upsertLocationId writes; match_score is kept as the distance it
\* is computed from, max(0, 1 - dist_m / MATCH_THRESHOLD_METERS).
upsertLocationId(mappings, store_id, location_id, match_method, dist_m, t) ==
    [mappings EXCEPT ![store_id] =
        [provider_location_id |-> location_id, match_method |-> match_method,
         match_dist_m |-> dist_m,
         created_at |-> IF mappings[store_id] = NoRow THEN t
                        ELSE mappings[store_id].created_at,
         verified_at |-> t]]

LocationsUpstream ==
    [kind : {"ok"},
     locations : {<<>>,
                  <<[locationId |-> "L1", lat |-> 500], [locationId |-> "L2", lat |-> 100],
                    [locationId |-> "L3", lat |-> -100]>>,
                  <<[locationId |-> "L4", lat |-> 701]>>,
                  <<[locationId |-> "L5", lat |-> 700]>>}]
      \cup [kind : KrogerFailures, locations : {<<>>}]

\* fetchKrogerLocations(db, opts) on the provider_health row of "kroger".
fetchKrogerLocations(row, t, upstream) ==
    IF isOpen(row, t)
    THEN [health |-> row, error |-> "KROGER_CIRCUIT_OPEN", locations |-> <<>>]
    ELSE IF upstream.kind = "ok"
    THEN [health |-> recordSuccess(row), error |-> NoError,
          locations |-> upstream.locations]
    ELSE [health |-> recordFailure(row, DefaultOpts, t), error |-> upstream.kind,
          locations |-> <<>>]

\* A pick that takes the first candidate, near or far.
pickFirstLocation(store, locations, best) ==
    IF locations = <<>> THEN best
    ELSE [location |-> Head(locations),
          dist_m |-> distanceMeters(Place(store.lat), Place(Head(locations).lat))]

\* pickBestLocation(store, locations): the first of the nearest, or Null.
RECURSIVE pickBestLocation(_, _, _)
pickBestLocation(store, locations, best) ==
    IF locations = <<>> THEN best
    ELSE LET loc == Head(locations)
             d == distanceMeters(Place(store.lat), Place(loc.lat))
         IN  pickBestLocation(store, Tail(locations),
                 IF best = Null \/ d < best.dist_m
                 THEN [location |-> loc, dist_m |-> d] ELSE best)

\* resolveLocationId(env, input) of session s1: the location id ("" for
\* null) or the error thrown; denied tells that the locations bucket refused.
resolveLocationId(db, input, t, locUp, tokUp) ==
    LET memo == getMappedLocationId(db.mappings, input.store.id, t)
        tok == takeToken(db.rl["kroger:s1:locations"], RL_LOCATIONS, t)
        db1 == [db EXCEPT !.rl["kroger:s1:locations"] = tok.row]
        a == getAccessToken(db1, t, tokUp)
        f == fetchKrogerLocations(a.db.health["kroger"], t, locUp)
        db2 == [a.db EXCEPT !.health["kroger"] = f.health]
        best == pickBestLocation(input.store, f.locations, Null)
    IN  IF memo # ""
        THEN [db |-> db, error |-> NoError, locationId |-> memo, denied |-> FALSE]
        ELSE IF ~tok.allowed
        THEN [db |-> db1, error |-> NoError, locationId |-> "", denied |-> TRUE]
        ELSE IF a.error # NoError
        THEN [db |-> a.db, error |-> a.error, locationId |-> "", denied |-> FALSE]
        ELSE IF f.error # NoError
        THEN [db |-> db2, error |-> f.error, locationId |-> "", denied |-> FALSE]
        ELSE IF best = Null \/ best.dist_m > MATCH_THRESHOLD_METERS
        THEN [db |-> db2, error |-> NoError, locationId |-> "", denied |-> FALSE]
        ELSE [db |-> [db2 EXCEPT !.mappings =
                         upsertLocationId(db2.mappings, input.store.id,
                                          best.location.locationId, "auto_nearest",
                                          best.dist_m, t)],
              error |-> NoError, locationId |-> best.location.locationId,
              denied |-> FALSE]

ProductUpstream ==
    [kind : {"ok"}, price_cents : {NullNumber, 429}]
      \cup [kind : KrogerFailures, price_cents : {NullNumber}]

\* fetchKrogerProductDetails(db, opts) on the provider_health row of "kroger".
fetchKrogerProductDetails(row, t, upstream) ==
    IF isOpen(row, t)
    THEN [health |-> row, error |-> "KROGER_CIRCUIT_OPEN", price_cents |-> NullNumber]
    ELSE IF upstream.kind = "ok"
    THEN [health |-> recordSuccess(row), error |-> NoError,
          price_cents |-> upstream.price_cents]
    ELSE [health |-> recordFailure(row, DefaultOpts, t), error |-> upstream.kind,
          price_cents |-> NullNumber]

priceKey(locationId, upc) == "kroger:price:" \o locationId \o ":" \o upc

\* A set that forgets the prices of the other UPCs.
setOnlyPrice(prices_by_upc, upc, price_cents, observed_at) ==
    {[upc |-> upc, price_cents |-> price_cents, observed_at |-> observed_at,
      confidence |-> OverlayConfidence]}

\* prices_by_upc.set(upc, price)
setPrice(prices_by_upc, upc, price_cents, observed_at) ==
    {p \in prices_by_upc : p.upc # upc}
      \cup {[upc |-> upc, price_cents |-> price_cents, observed_at |-> observed_at,
             confidence |-> OverlayConfidence]}

OverlayCalls == IF overlayRet = NoCall THEN 0 ELSE overlayRet.n

TheKrogerDb ==
    KrogerDb(query_cache, rate_limits, provider_health, store_provider_mappings)

\* The tables become those of db.
KrogerWrite(db) ==
    /\ query_cache' = db.cache
    /\ rate_limits' = db.rl
    /\ provider_health' = db.health
    /\ store_provider_mappings' = db.mappings

OverlayIdle == [pc |-> "idle"]

\* The call returns {prices_by_upc, warnings}; problems lists what went
\* wrong with the provider on the way.
OverlayReturns(n, env, input, prices_by_upc, warnings, problems) ==
    /\ overlayRet' = [op |-> "getKrogerLivePriceOverlay", n |-> n, env |-> env,
                      input |-> input, outcome |-> "ok",
                      prices_by_upc |-> prices_by_upc, warnings |-> warnings,
                      problems |-> problems]
    /\ overlay' = OverlayIdle

\* Lines 181-199: the configuration checks and resolveLocationId.
OverlayResolve(env, input, locUp, tokUp) ==
    /\ overlay.pc = "idle"
    /\ OverlayCalls < MaxOverlays
    /\ LET n == OverlayCalls + 1
           r == resolveLocationId(TheKrogerDb, input, now, locUp, tokUp)
       IN  IF ~isEnabled(env)
           THEN /\ OverlayReturns(n, env, input, {}, <<>>, {})
                /\ KrogerWrite(TheKrogerDb)
           ELSE IF ~hasCreds(env)
           THEN /\ OverlayReturns(n, env, input, {},
                                  <<"KROGER_MISCONFIGURED_MISSING_CREDS">>,
                                  {"MISSING_CREDS"})
                /\ KrogerWrite(TheKrogerDb)
           ELSE IF r.error # NoError
           THEN /\ OverlayReturns(n, env, input, {},
                                  <<"KROGER_UNAVAILABLE_LOCATION_LOOKUP">>, {r.error})
                /\ KrogerWrite(r.db)
           ELSE IF r.locationId = ""
           THEN /\ OverlayReturns(n, env, input, {}, <<>>,
                                  IF r.denied THEN {"KROGER_RATE_LIMITED_LOCATIONS"}
                                  ELSE {})
                /\ KrogerWrite(r.db)
           ELSE /\ overlay' = [pc |-> "auth", n |-> n, env |-> env, input |-> input,
                               upcs |-> SubSeq(input.upcs, 1,
                                               Min(MAX_UPCS_PER_QUOTE, Len(input.upcs))),
                               locationId |-> r.locationId]
                /\ KrogerWrite(r.db)
                /\ UNCHANGED overlayRet
    /\ resolved' =
          IF isEnabled(env) /\ hasCreds(env)
          THEN LET r == resolveLocationId(TheKrogerDb, input, now, locUp, tokUp)
                   memo == getMappedLocationId(store_provider_mappings,
                                               input.store.id, now)
                   answered == memo = "" /\ ~r.denied /\ r.error = NoError
               IN  [op |-> "resolveLocationId", n |-> OverlayCalls + 1,
                    store |-> input.store, at |-> now, memo |-> memo,
                    denied |-> r.denied, error |-> r.error, answered |-> answered,
                    locations |-> IF answered THEN locUp.locations ELSE <<>>,
                    locationId |-> r.locationId]
          ELSE resolved
    /\ UNCHANGED now

\* Lines 201-210: getAccessToken.
OverlayAuth(tokUp) ==
    /\ overlay.pc = "auth"
    /\ LET a == getAccessToken(TheKrogerDb, now, tokUp)
       IN  /\ KrogerWrite(a.db)
           /\ UNCHANGED resolved
           /\ IF a.error # NoError
              THEN OverlayReturns(overlay.n, overlay.env, overlay.input, {},
                                  <<"KROGER_UNAVAILABLE_AUTH">>, {a.error})
              ELSE /\ overlay' = [pc |-> "fetching", n |-> overlay.n,
                                  env |-> overlay.env, input |-> overlay.input,
                                  upcs |-> overlay.upcs,
                                  locationId |-> overlay.locationId,
                                  token |-> a.token, observed_at |-> now, idx |-> 1,
                                  partial |-> FALSE, prices_by_upc |-> {},
                                  problems |-> {}]
                   /\ UNCHANGED overlayRet
    /\ UNCHANGED now

\* Lines 212-247: a worker of mapLimit takes the next UPC and runs the
\* callback on it to its end.
OverlayFetch(upstream) ==
    /\ overlay.pc = "fetching"
    /\ overlay.idx <= Len(overlay.upcs)
    /\ LET upc == overlay.upcs[overlay.idx]
           db == TheKrogerDb
           cacheKey == priceKey(overlay.locationId, upc)
           cached == cacheGet(db.cache[cacheKey], now)
           tok == takeToken(db.rl["kroger:s1:products"], RL_PRODUCTS, now)
           db1 == [db EXCEPT !.rl["kroger:s1:products"] = tok.row]
           r == fetchKrogerProductDetails(db.health["kroger"], now, upstream)
           db2 == [db1 EXCEPT !.health["kroger"] = r.health]
           next == [overlay EXCEPT !.idx = @ + 1]
       IN  IF cached # Null
           THEN /\ overlay' = [next EXCEPT !.prices_by_upc =
                                 setPrice(@, upc, cached.price_cents, cached.observed_at)]
                /\ KrogerWrite(db)
           ELSE IF ~tok.allowed
           THEN /\ overlay' = [next EXCEPT !.partial = TRUE,
                                 !.problems = @ \cup {"KROGER_RATE_LIMITED_PRODUCTS"}]
                /\ KrogerWrite(db1)
           ELSE IF r.error # NoError
           THEN /\ overlay' = [next EXCEPT !.partial = TRUE,
                                 !.problems = @ \cup {r.error}]
                /\ KrogerWrite(db2)
           ELSE IF r.price_cents = NullNumber
           THEN /\ overlay' = [next EXCEPT !.partial = TRUE]
                /\ KrogerWrite(db2)
           ELSE /\ overlay' = [next EXCEPT !.prices_by_upc =
                                 setPrice(@, upc, r.price_cents, overlay.observed_at)]
                /\ KrogerWrite([db2 EXCEPT !.cache[cacheKey] =
                                   cachePut([price_cents |-> r.price_cents,
                                             observed_at |-> overlay.observed_at],
                                            PRICE_CACHE_TTL_SEC, now)])
    /\ UNCHANGED <<now, overlayRet, resolved>>

\* Lines 249-250: all UPCs taken, the call returns.
OverlayReturn ==
    /\ overlay.pc = "fetching"
    /\ overlay.idx > Len(overlay.upcs)
    /\ OverlayReturns(overlay.n, overlay.env, overlay.input, overlay.prices_by_upc,
                      IF overlay.partial THEN <<"KROGER_PARTIAL_OR_RATE_LIMITED">>
                      ELSE <<>>,
                      overlay.problems)
    /\ UNCHANGED <<now, query_cache, rate_limits, provider_health,
                   store_provider_mappings, resolved>>

\* mapLimit(upcs, 4, fn) of the overlay with its workers interleaved.  Each
\* worker is an async loop: it takes the next index with `idx++`, which no
\* other worker can interrupt, returns when the items are used up, and
\* otherwise awaits fn on the item; the steps of the other workers come
\* between a worker's take and the end of its fn.  fn is the per-UPC
\* callback, whose effect OverlayFetch gives; here it is a task that ends.
PoolLimit == 4

\* A pool twice as wide.
poolSizeDouble(limit) == 2 * Max(1, limit)

\* new Array(Math.max(1, limit)): the number of workers.
poolSize(limit) == Max(1, limit)

\* The lengths of input.upcs: none, a few, one more than the quote takes.
PoolRequests == {0, 3, MAX_UPCS_PER_QUOTE + 1}

PoolIdle == [pc |-> "idle"]

PoolInFlight(workers) == Cardinality({w \in DOMAIN workers : workers[w].pc = "fn"})

\* Lines 190 and 67-71: the UPCs are cut to MAX_UPCS_PER_QUOTE and the
\* workers are made.  items counts the UPCs, out how often fn has ended on
\* each, peak the most tasks in flight so far.
PoolStart(requested) ==
    /\ pool.pc = "idle"
    /\ pool' = [pc |-> "running", requested |-> requested,
                items |-> Min(MAX_UPCS_PER_QUOTE, requested), idx |-> 0,
                workers |-> [w \in 1..poolSize(PoolLimit) |-> [pc |-> "loop", i |-> 0]],
                out |-> [i \in 1..Min(MAX_UPCS_PER_QUOTE, requested) |-> 0],
                peak |-> 0]

\* Lines 73-75: `const i = idx++`, then return or start fn(items[i]).
WorkerTake(w) ==
    /\ pool.pc = "running"
    /\ pool.workers[w].pc = "loop"
    /\ LET i == pool.idx
           workers == [pool.workers EXCEPT ![w] =
                          IF i >= pool.items THEN [pc |-> "done", i |-> 0]
                          ELSE [pc |-> "fn", i |-> i]]
       IN  pool' = [pool EXCEPT !.idx = i + 1, !.workers = workers,
                                !.peak = Max(@, PoolInFlight(workers))]

\* Line 75: fn has ended on the worker's item, out[i] is set.
WorkerFinish(w) ==
    /\ pool.pc = "running"
    /\ pool.workers[w].pc = "fn"
    /\ pool' = [pool EXCEPT !.out[pool.workers[w].i + 1] = @ + 1,
                            !.workers[w] = [pc |-> "loop", i |-> 0]]

\* Lines 79-80 and 249-250: Promise.all(workers) resolves, the overlay returns.
PoolReturn ==
    /\ pool.pc = "running"
    /\ \A w \in DOMAIN pool.workers : pool.workers[w].pc = "done"
    /\ pool' = [pool EXCEPT !.pc = "returned"]

(***************************************************************************)
(* Specifications.                                                         *)
(***************************************************************************)
rlHist == <<rlCfg, rlCalls, rlRet, rlLast, rlRace>>
rlVars == <<rate_limits, rlHist>>
cbVars == <<cbOpts, provider_health, cbRun, cbLastFailAt, cbRace, cbRet>>
cacheVars == <<query_cache, cacheLast, cacheRet>>
httpVars == <<httpReq, http, httpSeen, httpSleeps, httpHeaders>>
priceVars == <<stores, products, price_snapshots, submitRet, submitRace>>
quoteVars == <<cart_items, quoteRet>>
catalogVars == <<product_rows, product_provider_payloads, background, catRet>>
krogerVars == <<store_provider_mappings, overlay, resolved, pool, overlayRet>>
svcVars == <<searchRet, product_rows, product_provider_payloads, background, catRet,
             krogerVars>>
vars == <<now, rlVars, cbVars, cacheVars, httpVars, priceVars, quoteVars, svcVars>>

\* The config of "k2": refill 1/TokenScale token per second, cost 1.
RefillingConfig == [capacity |-> MaxCapacity * TokenScale, refillPerSec |-> 1,
                    cost |-> TokenScale]

RLConfigs ==
    {c \in [RLKeys -> TokenBucketConfigs \cup {RefillingConfig}] :
        c["k2"] = RefillingConfig}

DefaultConfig == [k \in RLKeys |-> RefillingConfig]
RLStart ==
    /\ rate_limits = [k \in AllRLKeys |-> NoRow]
    /\ rlCalls = [k \in RLKeys |-> 0]
    /\ rlRet = NoCall
    /\ rlLast = [k \in RLKeys |-> NoCall]
    /\ rlRace = RaceIdle

CBStart ==
    /\ provider_health = [p \in Providers |-> NoRow]
    /\ cbRun = [p \in Providers |-> 0]
    /\ cbLastFailAt = [p \in Providers |-> 0]
    /\ cbRace = FailIdle
    /\ cbRet = NoCall

CacheStart ==
    /\ query_cache = [k \in CacheKeys |-> NoRow]
    /\ cacheLast = [k \in CacheKeys |-> NoCall]
    /\ cacheRet = NoCall

HttpIdle ==
    /\ httpReq = [input |-> [kind |-> "string", href |-> RequestUrl],
                  method |-> "GET", isIdempotent |-> "undefined", attempts |-> 1,
                  retryOnStatuses |-> RetryOnStatuses]
    /\ http = HttpStart
    /\ httpSeen = <<>>
    /\ httpSleeps = <<>>
    /\ httpHeaders = <<>>

\* The seeded tables (migrations 0002 and 0004): three stores, their products.
AllStores == {"A", "B", "C"}
AllProducts == {"milk", "pb", "apples", "eggs", "rice"}

KrogerIdle ==
    /\ store_provider_mappings = [id \in AllStores |-> NoRow]
    /\ overlay = [pc |-> "idle"]
    /\ pool = PoolIdle
    /\ resolved = NoCall
    /\ overlayRet = NoCall

\* No service call made yet.
SvcIdle ==
    /\ searchRet = NoCall
    /\ product_rows = [u \in AllProducts |-> SeedProduct(u)]
    /\ product_provider_payloads = {}
    /\ background = <<>>
    /\ catRet = NoCall
    /\ KrogerIdle

\* A seeded dataset row.
SeedRow(id, store_id, upc, price_cents, observed_at) ==
    [id |-> id, store_id |-> store_id, upc |-> upc, price_cents |-> price_cents,
     observed_at |-> observed_at, source |-> "open_prices",
     evidence_type |-> "dataset", confidence |-> 75, created_at |-> 0]

PriceIdle ==
    /\ stores = AllStores
    /\ products = AllProducts
    /\ price_snapshots = <<>>
    /\ submitRet = NoCall
    /\ submitRace = SubmitRaceIdle
    /\ cart_items = <<>>
    /\ quoteRet = NoCall
    /\ SvcIdle

RLIdle == rlCfg = DefaultConfig /\ RLStart
CBIdle == cbOpts = [p \in Providers |-> DefaultOpts] /\ CBStart

InitRL ==
    /\ now = 0
    /\ rlCfg \in RLConfigs
    /\ RLStart
    /\ CBIdle
    /\ CacheStart
    /\ HttpIdle
    /\ PriceIdle

NextRL ==
    \/ Advance(1, RLMaxTime) /\ UNCHANGED <<rlVars, cbVars, cacheVars, httpVars, priceVars, quoteVars, svcVars>>
    \/ \E k \in RLKeys : TakeToken(k) /\ UNCHANGED <<cbVars, cacheVars, httpVars, priceVars, quoteVars, svcVars>>

SpecRL == InitRL /\ [][NextRL]_vars

\* SpecRace: the callers' takeToken calls on key "k" with their reads and
\* writes in any order, under every config.
NextRace ==
    \/ Advance(1, RLMaxTime) /\ UNCHANGED <<rlVars, cbVars, cacheVars, httpVars, priceVars, quoteVars, svcVars>>
    \/ \E w \in Callers : RaceRead(w) /\ UNCHANGED <<cbVars, cacheVars, httpVars, priceVars, quoteVars, svcVars>>
    \/ \E w \in Callers : RaceWrite(w) /\ UNCHANGED <<cbVars, cacheVars, httpVars, priceVars, quoteVars, svcVars>>

SpecRace == InitRL /\ [][NextRace]_vars

\* SpecRLClock: takeToken calls on key "k" under every config of capacity,
\* cost and refill >= 0, with a clock whose readings may repeat, advance or
\* go back between calls.
AnyCostConfigs ==
    [capacity : {c * TokenScale : c \in 0..MaxCapacity},
     refillPerSec : 0..MaxRefill,
     cost : 0..(MaxCost * TokenScale)]

\* nowSec() gives some other reading, later or earlier.
SetClock ==
    /\ now' \in 0..RLMaxTime
    /\ now' # now

InitRLClock ==
    /\ now = 0
    /\ rlCfg \in {c \in [RLKeys -> AnyCostConfigs \cup {RefillingConfig}] :
                    c["k2"] = RefillingConfig}
    /\ RLStart
    /\ CBIdle
    /\ CacheStart
    /\ HttpIdle
    /\ PriceIdle

NextRLClock ==
    \/ SetClock /\ UNCHANGED <<rlVars, cbVars, cacheVars, httpVars, priceVars, quoteVars, svcVars>>
    \/ TakeToken("k") /\ UNCHANGED <<cbVars, cacheVars, httpVars, priceVars, quoteVars, svcVars>>

SpecRLClock == InitRLClock /\ [][NextRLClock]_vars

InitCB ==
    /\ now = 0
    /\ cbOpts \in BreakerOpts
    /\ CBStart
    /\ RLIdle
    /\ CacheStart
    /\ HttpIdle
    /\ PriceIdle

NextCB ==
    \/ AdvanceTo(CBReadings) /\ UNCHANGED <<rlVars, cbVars, cacheVars, httpVars, priceVars, quoteVars, svcVars>>
    \/ \E p \in Providers : IsOpen(p) /\ UNCHANGED <<rlVars, cacheVars, httpVars, priceVars, quoteVars, svcVars>>
    \/ \E p \in Providers : RecordSuccess(p) /\ UNCHANGED <<rlVars, cacheVars, httpVars, priceVars, quoteVars, svcVars>>
    \/ \E p \in Providers : RecordFailure(p) /\ UNCHANGED <<rlVars, cacheVars, httpVars, priceVars, quoteVars, svcVars>>

SpecCB == InitCB /\ [][NextCB]_vars

\* SpecCBRace: the callers' recordFailure calls on one provider with their
\* reads and writes in any order and no recordSuccess, while the clock stays
\* inside the shortest open window.
CBRaceMaxTime == 1
NextCBRace ==
    \/ Advance(1, CBRaceMaxTime) /\ UNCHANGED <<rlVars, cbVars, cacheVars, httpVars, priceVars, quoteVars, svcVars>>
    \/ \E w \in Callers : FailureRead(w) /\ UNCHANGED <<rlVars, cacheVars, httpVars, priceVars, quoteVars, svcVars>>
    \/ \E w \in Callers : FailureWrite(w) /\ UNCHANGED <<rlVars, cacheVars, httpVars, priceVars, quoteVars, svcVars>>

SpecCBRace == InitCB /\ [][NextCBRace]_vars

InitCache ==
    /\ now = 0
    /\ CacheStart
    /\ RLIdle
    /\ CBIdle
    /\ HttpIdle
    /\ PriceIdle

NextCache ==
    \/ Advance(1, CacheMaxTime) /\ UNCHANGED <<rlVars, cbVars, cacheVars, httpVars, priceVars, quoteVars, svcVars>>
    \/ \E k \in CacheKeys : CacheGet(k) /\ UNCHANGED <<rlVars, cbVars, httpVars, priceVars, quoteVars, svcVars>>
    \/ \E k \in CacheKeys : CachePeek(k) /\ UNCHANGED <<rlVars, cbVars, httpVars, priceVars, quoteVars, svcVars>>
    \/ \E k \in CacheKeys, v \in Payloads, ttl \in 0..MaxTtl :
          CachePut(k, v, ttl) /\ UNCHANGED <<rlVars, cbVars, httpVars, priceVars, quoteVars, svcVars>>
    \/ CachePurgeExpired /\ UNCHANGED <<rlVars, cbVars, httpVars, priceVars, quoteVars, svcVars>>

SpecCache == InitCache /\ [][NextCache]_vars

InitHttp ==
    /\ now = 0
    /\ httpReq \in HttpRequests
    /\ http = HttpStart
    /\ httpSeen = <<>>
    /\ httpSleeps = <<>>
    /\ httpHeaders = <<>>
    /\ RLIdle
    /\ CBIdle
    /\ CacheStart
    /\ PriceIdle

NextHttp ==
    \/ \E o \in FetchOutcomes : Fetch(o) /\ UNCHANGED <<rlVars, cbVars, cacheVars, priceVars, quoteVars, svcVars>>
    \/ \E r \in JitterRolls : Sleep(r) /\ UNCHANGED <<rlVars, cbVars, cacheVars, priceVars, quoteVars, svcVars>>

SpecHttp == InitHttp /\ [][NextHttp]_vars

\* SpecHttpFair: a fetch ends (fetchWithTimeout aborts it after timeoutMs at
\* the latest) and a sleep ends (its timer fires), so a call that can take a
\* step takes it.
SpecHttpFair == SpecHttp /\ WF_vars(NextHttp)

\* The submit bucket of the session: never used, or drained at the start.
SubmitBuckets(t) ==
    {NoRow, [tokens |-> 0, updated_at |-> t], [tokens |-> RL_SUBMIT.cost, updated_at |-> t]}

SubmitStart(t, seeds, buckets) ==
    /\ now = t
    /\ stores = AllStores
    /\ products = AllProducts
    /\ price_snapshots \in seeds
    /\ submitRet = NoCall
    /\ submitRace = SubmitRaceIdle
    /\ cart_items = <<>>
    /\ quoteRet = NoCall
    /\ SvcIdle
    /\ rlCfg = DefaultConfig
    /\ rlCalls = [k \in RLKeys |-> 0]
    /\ rlRet = NoCall
    /\ rlLast = [k \in RLKeys |-> NoCall]
    /\ rlRace = RaceIdle
    /\ \E b \in buckets :
          rate_limits = [k \in AllRLKeys |-> IF k = "price_submit:s1" THEN b ELSE NoRow]
    /\ CBIdle
    /\ CacheStart
    /\ HttpIdle

\* SpecDedupe: submitPrice with the same few prices again and again, at clock
\* readings and observation times around the one-hour window and the one-day
\* future allowance.
DedupeStart == DedupeWindowSec + 100

DedupeReadings ==
    {DedupeStart, DedupeStart + DedupeWindowSec, DedupeStart + DedupeWindowSec + 1}

DedupeSeeds ==
    {<<>>, <<SeedRow(1, "A", "pb", 5, DedupeStart - 10)>>}

DedupeInputs ==
    [store_id : {"A"}, upc : {"milk"}, price_cents : {5, 6},
     observed_at : {NoObservedAt, DedupeStart - DedupeWindowSec - 1,
                    DedupeStart + DedupeWindowSec + 1,
                    DedupeStart + FutureSkewSec + 1},
     evidence_type : {"manual"}]
      \cup [store_id : {"Z"}, upc : {"milk"}, price_cents : {5},
            observed_at : {NoObservedAt}, evidence_type : {"manual"}]
      \cup [store_id : {"A"}, upc : {"nope"}, price_cents : {5},
            observed_at : {NoObservedAt}, evidence_type : {"manual"}]

InitDedupe == SubmitStart(DedupeStart, DedupeSeeds, SubmitBuckets(DedupeStart))

NextDedupe ==
    \/ AdvanceTo(DedupeReadings)
          /\ UNCHANGED <<rlVars, cbVars, cacheVars, httpVars, priceVars, quoteVars, svcVars>>
    \/ \E input \in DedupeInputs :
          SubmitPrice(input) /\ UNCHANGED <<rlHist, cbVars, cacheVars, httpVars, quoteVars, svcVars>>

SpecDedupe == InitDedupe /\ [][NextDedupe]_vars

\* SpecChecks: submitPrice of inputs that fail none, one or several of the
\* checks at once, against histories in which a price is a duplicate, an
\* outlier or both, with the bucket full, at its last token or drained.
ChecksStart == FutureSkewSec

ChecksSeeds ==
    {<<>>,
     <<SeedRow(1, "A", "milk", 5, ChecksStart - 10)>>,
     <<SeedRow(1, "A", "milk", 5, ChecksStart - 10),
       SeedRow(2, "A", "milk", 5, ChecksStart - 20),
       SeedRow(3, "A", "milk", 100, ChecksStart - 30)>>}

ChecksInputs ==
    [store_id : {"A", "Z"}, upc : {"milk", "nope"}, price_cents : {5, 100},
     observed_at : {NoObservedAt, ChecksStart + FutureSkewSec + 1},
     evidence_type : {"manual"}]

InitChecks == SubmitStart(ChecksStart, ChecksSeeds, SubmitBuckets(ChecksStart))

NextChecks ==
    \E input \in ChecksInputs :
        SubmitPrice(input) /\ UNCHANGED <<rlHist, cbVars, cacheVars, httpVars, quoteVars, svcVars>>

SpecChecks == InitChecks /\ [][NextChecks]_vars

\* SpecSubmitRace: one submitPrice call of each caller, their steps in any
\* order, with inputs that are the same or differ in price or observation
\* time, against an empty table and one that holds a row already.
SubmitRaceStart == DedupeWindowSec + 100

SubmitRaceSeeds ==
    {<<>>, <<SeedRow(1, "A", "milk", 5, SubmitRaceStart - 10)>>}

SubmitRaceInputs ==
    [store_id : {"A"}, upc : {"milk"}, price_cents : {5, 6, 100},
     observed_at : {NoObservedAt, SubmitRaceStart - DedupeWindowSec - 11},
     evidence_type : {"manual"}]

InitSubmitRace ==
    SubmitStart(SubmitRaceStart, SubmitRaceSeeds, SubmitBuckets(SubmitRaceStart))

NextSubmitRace ==
    \/ \E w \in Callers, input \in SubmitRaceInputs :
          SubmitBegin(w, input) /\ UNCHANGED <<rlHist, cbVars, cacheVars, httpVars, quoteVars, svcVars>>
    \/ \E w \in Callers : SubmitDedupe(w) /\ UNCHANGED <<rlHist, cbVars, cacheVars, httpVars, quoteVars, svcVars>>
    \/ \E w \in Callers : SubmitHistory(w) /\ UNCHANGED <<rlHist, cbVars, cacheVars, httpVars, quoteVars, svcVars>>
    \/ \E w \in Callers : SubmitInsert(w) /\ UNCHANGED <<rlHist, cbVars, cacheVars, httpVars, quoteVars, svcVars>>

SpecSubmitRace == InitSubmitRace /\ [][NextSubmitRace]_vars

\* SpecOutlier: submitPrice of many prices against seeded histories of one
\* store and UPC, observed long before the clock's first reading.
OutlierStart == FutureSkewSec

OutlierReadings == {OutlierStart, OutlierStart + DedupeWindowSec + 1}

\* 27 rows: the 25 most recent hold 12 times 5 and 13 times 500 (median 500),
\* the two oldest hold 5, so that the median of all 27 is 5.
LongHistory ==
    [i \in 1..(HistLimit + 2) |->
        SeedRow(i, "A", "milk", IF i <= 14 THEN 5 ELSE 500, i)]

\* 26 rows: the two oldest tie on observed_at and hold 5 and 500, the other
\* 24 hold 12 times 5 and 12 times 500.
TiedHistory ==
    [i \in 1..(HistLimit + 1) |->
        SeedRow(i, "A", "milk", IF i = 1 \/ i > 14 THEN 500 ELSE 5,
                IF i = 1 THEN 2 ELSE i)]

OutlierSeeds ==
    {<<>>,
     <<SeedRow(1, "A", "milk", 5, 1)>>,
     <<SeedRow(1, "A", "milk", 500, 1), SeedRow(2, "B", "milk", 5, 2)>>,
     <<SeedRow(1, "A", "milk", 4, 1), SeedRow(2, "A", "milk", 7, 2)>>,
     LongHistory,
     TiedHistory}

OutlierInputs ==
    [store_id : {"A"}, upc : {"milk"}, price_cents : {1, 5, 16, 17, 100, 490},
     observed_at : {NoObservedAt}, evidence_type : {"manual", "receipt_text"}]
      \cup [store_id : {"A"}, upc : {"pb"}, price_cents : {100},
            observed_at : {NoObservedAt}, evidence_type : {"manual"}]

InitOutlier == SubmitStart(OutlierStart, OutlierSeeds, {NoRow})

NextOutlier ==
    \/ AdvanceTo(OutlierReadings)
          /\ UNCHANGED <<rlVars, cbVars, cacheVars, httpVars, priceVars, quoteVars, svcVars>>
    \/ \E input \in OutlierInputs :
          SubmitPrice(input) /\ UNCHANGED <<rlHist, cbVars, cacheVars, httpVars, quoteVars, svcVars>>

SpecOutlier == InitOutlier /\ [][NextOutlier]_vars

\* SpecQuote: quoteCart over seeded carts and price tables.
QuoteStart == 40 * DaySec

\* The quote bucket refills one token in two seconds.
QuoteReadings == {QuoteStart, QuoteStart + 2}

UpcOrder ==
    <<"milk", "pb", "apples", "eggs", "rice", "u06", "u07", "u08", "u09", "u10",
      "u11", "u12", "u13", "u14", "u15", "u16", "u17">>

\* The ages of the seeded rows, one per UPC: on each side of the freshness
\* thresholds.
SeedAges == <<0, 2 * DaySec, 2 * DaySec + 1, 7 * DaySec + 1, 30 * DaySec + 1>>

\* A store's dataset rows for the first cov UPCs.
CoverageRows(store_id, cov, milkPrice) ==
    [i \in 1..cov |->
        SeedRow(0, store_id, UpcOrder[i],
                IF i = 1 THEN milkPrice ELSE IF i = 2 THEN 125
                ELSE IF i <= 5 THEN 250 ELSE 300,
                QuoteStart - SeedAges[Min(i, Len(SeedAges))])]

CommunityRow(store_id, upc, price_cents, observed_at) ==
    [SeedRow(0, store_id, upc, price_cents, observed_at)
        EXCEPT !.source = "community", !.evidence_type = "manual",
               !.confidence = 45, !.created_at = observed_at]

\* More rows of store A's milk: an older one and one of lower confidence, or
\* one that ties the dataset row on observed_at and confidence.
ExtraRows(h) ==
    IF h = 1 THEN <<SeedRow(0, "A", "milk", 9000, QuoteStart - 10),
                    CommunityRow("A", "milk", 9000, QuoteStart)>>
    ELSE IF h = 2 THEN <<SeedRow(0, "A", "milk", 300, QuoteStart)>>
    ELSE <<>>

Renumber(rows) == [i \in 1..Len(rows) |-> [rows[i] EXCEPT !.id = i]]

\* The rows the seed migration inserts for milk, peanut butter and apples:
\* store A has all three, store B all three dearer, store C milk, peanut
\* butter and a community price for apples.
MigrationTable ==
    Renumber(<<SeedRow(0, "A", "milk", 399, QuoteStart - DaySec),
               SeedRow(0, "A", "pb", 549, QuoteStart - 2 * DaySec),
               SeedRow(0, "A", "apples", 699, QuoteStart - 3 * DaySec),
               SeedRow(0, "B", "milk", 429, QuoteStart - DaySec),
               SeedRow(0, "B", "pb", 599, QuoteStart - 2 * DaySec),
               SeedRow(0, "B", "apples", 749, QuoteStart - 3 * DaySec),
               SeedRow(0, "C", "milk", 409, QuoteStart - DaySec),
               SeedRow(0, "C", "pb", 579, QuoteStart - 2 * DaySec),
               CommunityRow("C", "apples", 799, QuoteStart - 43200)>>)

QuoteTables ==
    {MigrationTable} \cup
    {Renumber(ExtraRows(h) \o CoverageRows("A", covA, mA)
                \o CoverageRows("B", covB, mB) \o CoverageRows("C", 2, 250)) :
        h \in 0..2, covA \in {0, 1, 2, 5, 6}, covB \in {1, 3, 5},
        mA \in {250, 1000}, mB \in {250, 1000}}

CartOf(n, q) == [i \in 1..n |-> [upc |-> UpcOrder[i], quantity |-> q[i]]]

QuoteCarts ==
    {CartOf(0, <<>>), CartOf(1, <<1>>), CartOf(2, <<1, 2>>),
     CartOf(3, <<1, 1, 1>>), CartOf(4, <<1, 1, 1, 3>>), CartOf(5, <<1, 1, 1, 1, 1>>),
     CartOf(Len(UpcOrder), [i \in 1..Len(UpcOrder) |-> 1])}

QuoteStoreIds ==
    {<<"A", "B", "C">>, <<"C", "B", "A">>, <<"B", "A", "B">>, <<"Z", "A">>,
     <<"Z">>, <<"C">>}

InitQuote ==
    /\ now = QuoteStart
    /\ stores = AllStores
    /\ products = AllProducts
    /\ price_snapshots \in QuoteTables
    /\ submitRet = NoCall
    /\ submitRace = SubmitRaceIdle
    /\ cart_items \in QuoteCarts
    /\ quoteRet = NoCall
    /\ SvcIdle
    /\ rlCfg = DefaultConfig
    /\ rlCalls = [k \in RLKeys |-> 0]
    /\ rlRet = NoCall
    /\ rlLast = [k \in RLKeys |-> NoCall]
    /\ rlRace = RaceIdle
    /\ \E b \in {NoRow, [tokens |-> 0, updated_at |-> QuoteStart]} :
          rate_limits = [k \in AllRLKeys |-> IF k = "quote:s1" THEN b ELSE NoRow]
    /\ CBIdle
    /\ CacheStart
    /\ HttpIdle

NextQuote ==
    \/ AdvanceTo(QuoteReadings)
          /\ UNCHANGED <<rlVars, cbVars, cacheVars, httpVars, priceVars, quoteVars, svcVars>>
    \/ \E ids \in QuoteStoreIds :
          QuoteCart(ids) /\ UNCHANGED <<rlHist, cbVars, cacheVars, httpVars, svcVars>>

SpecQuote == InitQuote /\ [][NextQuote]_vars

\* SpecEvidence: submitPrice and quoteCart calls of session s1 in any order
\* over a price_snapshots table that starts empty or seeded.
EvidenceCarts == {CartOf(0, <<>>), CartOf(2, <<1, 2>>)}
EvidenceStoreIds == {<<"A">>, <<"Z", "A">>}

InitEvidence ==
    /\ now = DedupeStart
    /\ stores = AllStores
    /\ products = AllProducts
    /\ price_snapshots \in DedupeSeeds
    /\ submitRet = NoCall
    /\ submitRace = SubmitRaceIdle
    /\ cart_items \in EvidenceCarts
    /\ quoteRet = NoCall
    /\ SvcIdle
    /\ RLIdle
    /\ CBIdle
    /\ CacheStart
    /\ HttpIdle

NextEvidence ==
    \/ AdvanceTo(DedupeReadings)
          /\ UNCHANGED <<rlVars, cbVars, cacheVars, httpVars, priceVars, quoteVars, svcVars>>
    \/ \E input \in DedupeInputs :
          SubmitPrice(input) /\ UNCHANGED <<rlHist, cbVars, cacheVars, httpVars, quoteVars, svcVars>>
    \/ \E ids \in EvidenceStoreIds :
          QuoteCart(ids) /\ UNCHANGED <<rlHist, cbVars, cacheVars, httpVars, svcVars>>

SpecEvidence == InitEvidence /\ [][NextEvidence]_vars

\* SpecSearch: storeSearch calls of session s1 with every behaviour of the two
\* upstreams, over a stores table with and without seed rows, buckets unused
\* or drained, and breakers closed or one failure from tripping.
SearchStart == 1000

SearchReadings ==
    {SearchStart, SearchStart + DefaultOpenForSec, SearchStart + TTL_STORES_SEC}

SearchCacheKeys ==
    {geoKey(l) : l \in Locations}
      \cup {storesKey(Place(g.lat), clampRadius(i.radius_m)) :
                g \in {u \in GeocodeUpstream : u.kind = "found"}, i \in SearchInputs}

SearchProviders == {"nominatim", "overpass"}
SearchRLKeys == {"rl:s1:nominatim", "rl:s1:overpass"}

SearchTables == {{}, {"A", "B"}, {"osm:node/1"}}

InitSearch ==
    /\ now = SearchStart
    /\ stores \in SearchTables
    /\ products = AllProducts
    /\ price_snapshots = <<>>
    /\ submitRet = NoCall
    /\ submitRace = SubmitRaceIdle
    /\ cart_items = <<>>
    /\ quoteRet = NoCall
    /\ SvcIdle
    /\ query_cache = [k \in SearchCacheKeys |-> NoRow]
    /\ cacheLast = [k \in CacheKeys |-> NoCall]
    /\ cacheRet = NoCall
    /\ \E drained \in SUBSET SearchRLKeys :
          /\ Cardinality(drained) <= 1
          /\ rate_limits = [k \in SearchRLKeys |->
                               IF k \in drained
                               THEN [tokens |-> 0, updated_at |-> SearchStart]
                               ELSE NoRow]
    /\ rlCfg = DefaultConfig
    /\ rlCalls = [k \in RLKeys |-> 0]
    /\ rlRet = NoCall
    /\ rlLast = [k \in RLKeys |-> NoCall]
    /\ rlRace = RaceIdle
    /\ \E failing \in SUBSET SearchProviders :
          /\ Cardinality(failing) <= 1
          /\ provider_health = [p \in SearchProviders |->
                                   IF p \in failing
                                   THEN [consecutive_failures |-> DefaultTripAfter - 1,
                                         open_until |-> 0]
                                   ELSE NoRow]
    /\ cbOpts = [p \in Providers |-> DefaultOpts]
    /\ cbRun = [p \in Providers |-> 0]
    /\ cbLastFailAt = [p \in Providers |-> 0]
    /\ cbRace = FailIdle
    /\ cbRet = NoCall
    /\ HttpIdle

NextSearch ==
    \/ AdvanceTo(SearchReadings)
          /\ UNCHANGED <<rlVars, cbVars, cacheVars, httpVars, priceVars, quoteVars, svcVars>>
    \/ \E input \in SearchInputs, geo \in GeocodeUpstream, osm \in OverpassUpstream :
          StoreSearch(input, geo, osm)
            /\ UNCHANGED <<rlHist, cbOpts, cbRun, cbLastFailAt, cbRace, cbRet, cacheLast,
                           cacheRet, httpVars, quoteVars, catalogVars, krogerVars>>

SpecSearch == InitSearch /\ [][NextSearch]_vars

\* SpecCatalog: lookupProduct and searchProducts calls of session s1, with
\* and without an execution context, on cache entries absent, fresh or
\* expired, products seeded, fetched earlier or unknown, and every behaviour
\* of Open Food Facts.
CatalogStart == TTL_UPC_SEC + 100

CatalogReadings == {CatalogStart, CatalogStart + TTL_SEARCH_SEC}

LookupInputs == [upc : {" milk ", "pb", "eggs", "12ab"}]

ProductSearchInputs ==
    {[q |-> "milk", page |-> 0, page_size |-> 10],
     [q |-> " Milk", page |-> 1, page_size |-> 10],
     [q |-> "m", page |-> 1, page_size |-> 10]}

CatalogCacheKeys ==
    {lookupKey(validateUpc(i.upc)) : i \in {j \in LookupInputs : isUpc(trimUpc(j.upc))}}
      \cup {searchKey(trimQuery(i.q), clampPage(i.page), clampPage(i.page_size)) :
                i \in ProductSearchInputs}

CatalogRLKeys == {"rl:s1:openfoodfacts:lookup", "rl:s1:openfoodfacts:search"}

\* The product an earlier lookup of "milk" fetched at clock reading t, the
\* cache entry it wrote, and the entry an earlier search wrote.
FetchedProduct(upc, t) ==
    toCanonicalProduct([code |-> upc, product_name |-> "Milk 1L"], t)

LookupEntry(upc, t) ==
    cachePut(CatalogResponse("live", "fresh", [product |-> FetchedProduct(upc, t)]),
             TTL_UPC_SEC, t)

SearchEntry(q, t) ==
    cachePut(CatalogResponse("live", "fresh",
                 [query |-> q, page |-> 1, page_size |-> 10, total |-> 1,
                  products |-> <<FetchedProduct("milk", t)>>]),
             TTL_SEARCH_SEC, t)

InitCatalog ==
    /\ now = CatalogStart
    /\ stores = AllStores
    /\ price_snapshots = <<>>
    /\ submitRet = NoCall
    /\ submitRace = SubmitRaceIdle
    /\ cart_items = <<>>
    /\ quoteRet = NoCall
    /\ searchRet = NoCall
    /\ \E fetchedAt \in {CatalogStart - TTL_UPC_SEC, CatalogStart - 1},
          cached \in SUBSET {lookupKey("milk"), searchKey("milk", 1, 10)},
          known \in SUBSET {"eggs"} :
          /\ query_cache =
                [k \in CatalogCacheKeys |->
                    IF k \notin cached THEN NoRow
                    ELSE IF k = lookupKey("milk") THEN LookupEntry("milk", fetchedAt)
                    ELSE SearchEntry("milk", CatalogStart - TTL_SEARCH_SEC)]
          /\ product_rows =
                [u \in {"milk", "pb"} \cup known |->
                    IF u = "pb" THEN SeedProduct(u)
                    ELSE [source |-> "openfoodfacts", name |-> "Milk 1L",
                          updated_at |-> fetchedAt]]
    /\ products = DOMAIN product_rows
    /\ product_provider_payloads = {}
    /\ background = <<>>
    /\ catRet = NoCall
    /\ KrogerIdle
    /\ cacheLast = [k \in CacheKeys |-> NoCall]
    /\ cacheRet = NoCall
    /\ \E drained \in SUBSET CatalogRLKeys :
          /\ Cardinality(drained) <= 1
          /\ rate_limits = [k \in CatalogRLKeys |->
                               IF k \in drained
                               THEN [tokens |-> 0, updated_at |-> CatalogStart]
                               ELSE NoRow]
    /\ rlCfg = DefaultConfig
    /\ rlCalls = [k \in RLKeys |-> 0]
    /\ rlRet = NoCall
    /\ rlLast = [k \in RLKeys |-> NoCall]
    /\ rlRace = RaceIdle
    /\ provider_health \in
          [{"openfoodfacts"} ->
              {NoRow, [consecutive_failures |-> DefaultTripAfter - 1, open_until |-> 0]}]
    /\ cbOpts = [p \in Providers |-> DefaultOpts]
    /\ cbRun = [p \in Providers |-> 0]
    /\ cbLastFailAt = [p \in Providers |-> 0]
    /\ cbRace = FailIdle
    /\ cbRet = NoCall
    /\ HttpIdle

CatalogFrame ==
    UNCHANGED <<rlHist, cbOpts, cbRun, cbLastFailAt, cbRace, cbRet, cacheLast, cacheRet,
                httpVars, quoteVars, searchRet, krogerVars>>

NextCatalog ==
    \/ AdvanceTo(CatalogReadings)
          /\ UNCHANGED <<rlVars, cbVars, cacheVars, httpVars, priceVars, quoteVars, svcVars>>
    \/ \E input \in LookupInputs, execCtx \in BOOLEAN, upstream \in OffLookupUpstream :
          LookupProduct(input, execCtx, upstream) /\ CatalogFrame
    \/ \E input \in ProductSearchInputs, execCtx \in BOOLEAN,
            upstream \in OffSearchUpstream :
          SearchProducts(input, execCtx, upstream) /\ CatalogFrame
    \/ \E upstream \in OffLookupUpstream : RunRefreshLookup(upstream) /\ CatalogFrame
    \/ \E upstream \in OffSearchUpstream : RunRefreshSearch(upstream) /\ CatalogFrame

SpecCatalog == InitCatalog /\ [][NextCatalog]_vars

\* SpecOverlay: getKrogerLivePriceOverlay calls of session s1 for store A,
\* with the feature off, without credentials, or configured; the store mapped,
\* mapped long ago or unmapped; one of the three buckets drained; the breaker
\* closed or one failure from tripping; and every behaviour of the Kroger API.
OverlayStart == LOCATION_CACHE_MIN_FRESH_SEC + 100

OverlayReadings == {OverlayStart, OverlayStart + PRICE_CACHE_TTL_SEC}

OverlayEnvs ==
    {[KROGER_LIVE_PRICES_ENABLED |-> "TRUE", KROGER_CLIENT_ID |-> "id",
      KROGER_CLIENT_SECRET |-> "secret"],
     [KROGER_LIVE_PRICES_ENABLED |-> "undefined", KROGER_CLIENT_ID |-> "id",
      KROGER_CLIENT_SECRET |-> "secret"],
     [KROGER_LIVE_PRICES_ENABLED |-> "yes", KROGER_CLIENT_ID |-> "id",
      KROGER_CLIENT_SECRET |-> ""]}

OverlayInputs ==
    [store : {[id |-> "A", lat |-> StoreLat("A")]}, upcs : {<<>>, <<"milk", "pb">>}]

KrogerCacheKeys ==
    {TOKEN_CACHE_KEY} \cup {priceKey(l, u) : l \in {"L2", "L5"}, u \in {"milk", "pb"}}

KrogerRLKeys == {"kroger:s1:locations", "kroger:s1:token", "kroger:s1:products"}

\* The mapping an earlier call wrote at clock reading t.
MappingRow(t) ==
    [provider_location_id |-> "L2", match_method |-> "auto_nearest",
     match_dist_m |-> 100, created_at |-> t, verified_at |-> t]

InitOverlay ==
    /\ now = OverlayStart
    /\ stores = AllStores
    /\ products = AllProducts
    /\ price_snapshots = <<>>
    /\ submitRet = NoCall
    /\ submitRace = SubmitRaceIdle
    /\ cart_items = <<>>
    /\ quoteRet = NoCall
    /\ searchRet = NoCall
    /\ product_rows = [u \in AllProducts |-> SeedProduct(u)]
    /\ product_provider_payloads = {}
    /\ background = <<>>
    /\ catRet = NoCall
    /\ store_provider_mappings \in
          [{"A"} -> {NoRow, MappingRow(OverlayStart - 1),
                     MappingRow(OverlayStart - LOCATION_CACHE_MIN_FRESH_SEC)}]
    /\ overlay = OverlayIdle
    /\ pool = PoolIdle
    /\ resolved = NoCall
    /\ overlayRet = NoCall
    /\ \E cachedPrice \in BOOLEAN :
          query_cache =
            [k \in KrogerCacheKeys |->
                IF cachedPrice /\ k = priceKey("L2", "milk")
                THEN cachePut([price_cents |-> 399, observed_at |-> OverlayStart - 1],
                              PRICE_CACHE_TTL_SEC, OverlayStart - 1)
                ELSE NoRow]
    /\ cacheLast = [k \in CacheKeys |-> NoCall]
    /\ cacheRet = NoCall
    /\ \E drained \in SUBSET KrogerRLKeys :
          /\ Cardinality(drained) <= 1
          /\ rate_limits = [k \in KrogerRLKeys |->
                               IF k \in drained
                               THEN [tokens |-> 0, updated_at |-> OverlayStart]
                               ELSE NoRow]
    /\ rlCfg = DefaultConfig
    /\ rlCalls = [k \in RLKeys |-> 0]
    /\ rlRet = NoCall
    /\ rlLast = [k \in RLKeys |-> NoCall]
    /\ rlRace = RaceIdle
    /\ provider_health \in
          [{"kroger"} ->
              {NoRow, [consecutive_failures |-> DefaultTripAfter - 1, open_until |-> 0]}]
    /\ cbOpts = [p \in Providers |-> DefaultOpts]
    /\ cbRun = [p \in Providers |-> 0]
    /\ cbLastFailAt = [p \in Providers |-> 0]
    /\ cbRace = FailIdle
    /\ cbRet = NoCall
    /\ HttpIdle

OverlayFrame ==
    UNCHANGED <<rlHist, cbOpts, cbRun, cbLastFailAt, cbRace, cbRet, cacheLast, cacheRet,
                httpVars, priceVars, quoteVars, searchRet, catalogVars, pool>>

NextOverlay ==
    \/ AdvanceTo(OverlayReadings)
          /\ UNCHANGED <<rlVars, cbVars, cacheVars, httpVars, priceVars, quoteVars, svcVars>>
    \/ \E env \in OverlayEnvs, input \in OverlayInputs, locUp \in LocationsUpstream,
            tokUp \in TokenUpstream :
          OverlayResolve(env, input, locUp, tokUp) /\ OverlayFrame
    \/ \E tokUp \in TokenUpstream : OverlayAuth(tokUp) /\ OverlayFrame
    \/ \E upstream \in ProductUpstream : OverlayFetch(upstream) /\ OverlayFrame
    \/ OverlayReturn /\ OverlayFrame

SpecOverlay == InitOverlay /\ [][NextOverlay]_vars

\* SpecPool: one mapLimit run of the overlay, its workers in any order.
PoolFrame ==
    UNCHANGED <<now, rlVars, cbVars, cacheVars, httpVars, priceVars, quoteVars,
                searchRet, catalogVars, store_provider_mappings, overlay, resolved,
                overlayRet>>

NextPool ==
    \/ \E requested \in PoolRequests : PoolStart(requested) /\ PoolFrame
    \/ \E w \in 1..poolSize(PoolLimit) : WorkerTake(w) /\ PoolFrame
    \/ \E w \in 1..poolSize(PoolLimit) : WorkerFinish(w) /\ PoolFrame
    \/ PoolReturn /\ PoolFrame

InitPool ==
    /\ now = 0
    /\ RLIdle
    /\ CBIdle
    /\ CacheStart
    /\ HttpIdle
    /\ PriceIdle

SpecPool == InitPool /\ [][NextPool]_vars

(***************************************************************************)
(* Claims.                                                                 *)
(***************************************************************************)

\* C1: for a key that starts with no stored row, refillPerSec 0 and cost 1,
\* the n-th takeToken call on the key returns true exactly when n <= capacity:
\* the first C calls are allowed, call C+1 and every later call are denied.
C1_FirstCapacityCallsAllowed ==
    (rlRet.op = "takeToken"
       /\ rlCfg[rlRet.key].refillPerSec = 0
       /\ rlCfg[rlRet.key].cost = TokenScale)
    => (rlRet.allowed <=> rlCalls[rlRet.key] * TokenScale <= rlCfg[rlRet.key].capacity)

\* C1 witness: call C+1 on a zero-refill, cost-1 key of capacity C >= 2 was
\* just denied, after the clock has moved.
C1_Witness ==
    /\ rlRet.op = "takeToken"
    /\ rlCfg[rlRet.key].refillPerSec = 0
    /\ rlCfg[rlRet.key].cost = TokenScale
    /\ rlCfg[rlRet.key].capacity >= 2 * TokenScale
    /\ rlCalls[rlRet.key] * TokenScale = rlCfg[rlRet.key].capacity + TokenScale
    /\ ~rlRet.allowed
    /\ now > 0

\* C2: while exactly tripAfter recordFailure calls have been made for a provider
\* since it was closed with zero failures (no recordSuccess in between), the
\* breaker is open at every clock reading before (reading of the tripping
\* failure + openForSec) and closed from that reading on, and an isOpen call
\* made then returns just that.
C2_OpenUntilWindowElapses ==
    \A p \in Providers :
        cbRun[p] = cbOpts[p].tripAfter =>
            /\ isOpen(provider_health[p], now)
                  <=> now < cbLastFailAt[p] + cbOpts[p].openForSec
            /\ (cbRet.op = "isOpen" /\ cbRet.provider = p)
                  => (cbRet.result <=> cbRet.at < cbLastFailAt[p] + cbOpts[p].openForSec)

\* C2 witness: isOpen has just answered false at the very reading at which the
\* default window of 300 s after the third failure ends.
C2_Witness ==
    \E p \in Providers :
        /\ cbOpts[p].tripAfter = DefaultTripAfter
        /\ cbRun[p] = DefaultTripAfter
        /\ cbLastFailAt[p] > 0
        /\ now = cbLastFailAt[p] + DefaultOpenForSec
        /\ cbRet = [op |-> "isOpen", provider |-> p, at |-> now, result |-> FALSE]

\* C3: after recordSuccess(provider), whatever the row was before, the row is
\* consecutive_failures = 0, open_until = 0 and the breaker is closed, at the
\* reading of the call and at every later one until the next breaker call.
C3_SuccessClosesBreaker ==
    cbRet.op = "recordSuccess" =>
        /\ provider_health[cbRet.provider] =
              [consecutive_failures |-> 0, open_until |-> 0]
        /\ ~isOpen(provider_health[cbRet.provider], cbRet.at)
        /\ ~isOpen(provider_health[cbRet.provider], now)

\* C3 witness: recordSuccess was called on a breaker that was open, its window
\* not yet elapsed, and no time has passed since.
C3_Witness ==
    /\ cbRet.op = "recordSuccess"
    /\ cbRet.result
    /\ cbRet.at = now
    /\ cbLastFailAt[cbRet.provider] + cbOpts[cbRet.provider].openForSec > now
    /\ provider_health[cbRet.provider].open_until = 0

\* C6: while the last write to a key's row is a cachePut(key, payload, ttlSec)
\* made at reading t (no later cachePut or purge of the row), at every reading
\* now >= t + ttlSec cacheGet(key) returns null and cachePeek(key) returns the
\* same payload with is_fresh = false, and at every reading now < t + ttlSec
\* cacheGet(key) returns the payload; a cacheGet or cachePeek call made then
\* returned just that.
C6_ExpiredGetNullPeekStale ==
    \A k \in CacheKeys :
        cacheLast[k].op = "cachePut" =>
            LET put == cacheLast[k]
                expires == put.at + put.ttlSec
                get(t) == IF t >= expires THEN Null ELSE put.payload
                peek(t) == [payload |-> put.payload, expires_at |-> expires,
                            is_fresh |-> t < expires]
            IN  /\ cacheGet(query_cache[k], now) = get(now)
                /\ cachePeek(query_cache[k], now) = peek(now)
                /\ (cacheRet.op = "cacheGet" /\ cacheRet.key = k)
                      => cacheRet.result = get(cacheRet.at)
                /\ (cacheRet.op = "cachePeek" /\ cacheRet.key = k)
                      => cacheRet.result = peek(cacheRet.at)

\* C6 witness: cachePeek has just returned the payload of an entry put with a
\* positive ttl, flagged not fresh, at the very reading at which it expired.
C6_Witness ==
    \E k \in CacheKeys :
        /\ cacheLast[k].op = "cachePut"
        /\ cacheLast[k].ttlSec > 0
        /\ now = cacheLast[k].at + cacheLast[k].ttlSec
        /\ cacheRet.op = "cachePeek"
        /\ cacheRet.key = k
        /\ cacheRet.at = now
        /\ cacheRet.result.payload = cacheLast[k].payload
        /\ ~cacheRet.result.is_fresh
        /\ cacheGet(query_cache[k], now) = Null

\* The request is an idempotent GET: no method or GET, not marked otherwise.
IdempotentGet ==
    /\ httpReq.method \in {"", "GET"}
    /\ httpReq.isIdempotent # "false"

\* C4: an idempotent GET with attempts >= 4 and 503 in retryOnStatuses, whose
\* upstream answers 503, 503, 503 and then 200, has not thrown while the 503s
\* came in, and once the 200 came in it has returned that response after
\* exactly four fetches.
C4_GetSucceedsOnFourthAttempt ==
    (IdempotentGet /\ httpReq.attempts >= 4 /\ 503 \in httpReq.retryOnStatuses) =>
        /\ (httpSeen # <<>> /\ \A i \in 1..Len(httpSeen) : i <= 3 /\ httpSeen[i] = Answered(503))
              => http.pc \in {"sleep", "fetch"}
        /\ (Len(httpSeen) >= 4 /\ SubSeq(httpSeen, 1, 4) =
                <<Answered(503), Answered(503), Answered(503), Answered(200)>>)
              => /\ http.pc = "returned"
                 /\ http.result.kind = "response"
                 /\ http.result.status = 200
                 /\ Len(httpSeen) = 4
                 /\ Len(httpSleeps) = 3

\* C4 witness: attempts = 4, three 503s then a 200, and the call has returned.
C4_Witness ==
    /\ IdempotentGet
    /\ httpReq.attempts = 4
    /\ httpSeen = <<Answered(503), Answered(503), Answered(503), Answered(200)>>
    /\ http.pc = "returned"

\* The request is not idempotent: a method other than GET/HEAD, not marked
\* isIdempotent.
NotIdempotent ==
    /\ ToUpperCase(httpReq.method) \notin {"", "GET", "HEAD"}
    /\ httpReq.isIdempotent # "true"

\* C5: a request that is not idempotent is fetched at most once and never
\* sleeps, whatever attempts is; after its one fetch the call has ended (the
\* response returned, the error thrown).
C5_NonIdempotentFetchedOnce ==
    NotIdempotent =>
        /\ Len(httpSeen) <= 1
        /\ httpSleeps = <<>>
        /\ http.pc # "sleep"
        /\ Len(httpSeen) = 1 => http.pc \in {"returned", "thrown"}

\* C5 witness: a POST with attempts >= 3 got a 503 and the call has ended.
C5_Witness ==
    /\ NotIdempotent
    /\ httpReq.attempts >= 3
    /\ 503 \in httpReq.retryOnStatuses
    /\ httpSeen = <<Answered(503)>>
    /\ http.pc = "returned"
    /\ http.result.status = 503

\* The table as the last submitPrice call found it.
RowsBefore ==
    IF submitRet.inserted
    THEN SubSeq(price_snapshots, 1, Len(price_snapshots) - 1)
    ELSE price_snapshots

\* The observed_at the last submitPrice call used.
ObservedAtOfCall ==
    IF submitRet.input.observed_at = NoObservedAt THEN submitRet.at
    ELSE submitRet.input.observed_at

Distance(a, b) == IF a >= b THEN a - b ELSE b - a

\* The rows of the store, UPC and price of the last submitPrice call that an
\* earlier submitPrice call inserted.
EarlierSubmissions ==
    {i \in 1..Len(RowsBefore) :
        /\ RowsBefore[i].source = "community"
        /\ RowsBefore[i].store_id = submitRet.input.store_id
        /\ RowsBefore[i].upc = submitRet.input.upc
        /\ RowsBefore[i].price_cents = submitRet.input.price_cents}

\* The rows of that store, UPC and price observed within an hour of the call's
\* observed_at.
RowsInWindow ==
    {i \in 1..Len(RowsBefore) :
        /\ RowsBefore[i].store_id = submitRet.input.store_id
        /\ RowsBefore[i].upc = submitRet.input.upc
        /\ RowsBefore[i].price_cents = submitRet.input.price_cents
        /\ Distance(RowsBefore[i].observed_at, ObservedAtOfCall) <= DedupeWindowSec}

\* C7 as stated: when an earlier submitPrice call inserted a row of the same
\* (store, upc, price_cents) at most one hour before this call was made, this
\* call (if the rate limit admits it) returns that row's snapshot_id and
\* inserts nothing.
C7_Original ==
    (submitRet # NoCall /\ submitRet.outcome # "RATE_LIMITED") =>
        \A i \in EarlierSubmissions :
            submitRet.at - RowsBefore[i].created_at <= DedupeWindowSec =>
                /\ submitRet.outcome = "ok"
                /\ ~submitRet.inserted
                /\ submitRet.snapshot_id = RowsBefore[i].id

\* C7 amended: when an earlier submitPrice call inserted a row of the same
\* (store, upc, price_cents) and this call's observed_at (its clock reading
\* when none is given) is within 3600 s of that row's observed_at, this call,
\* unless it ends in RATE_LIMITED or OBSERVED_AT_IN_FUTURE, inserts nothing
\* and returns the snapshot_id of a row of that store, UPC and price observed
\* within 3600 s of it: the earlier row's when there is no other such row.
C7_DuplicateReturnsExistingId ==
    (submitRet # NoCall
       /\ submitRet.outcome \notin {"RATE_LIMITED", "OBSERVED_AT_IN_FUTURE"}) =>
        \A i \in EarlierSubmissions :
            i \in RowsInWindow =>
                /\ submitRet.outcome = "ok"
                /\ ~submitRet.inserted
                /\ price_snapshots = RowsBefore
                /\ \E j \in RowsInWindow : submitRet.snapshot_id = RowsBefore[j].id
                /\ RowsInWindow = {i} => submitRet.snapshot_id = RowsBefore[i].id

\* C7 witness: two calls that give no observed_at, made exactly one hour
\* apart; the second returned the id of the row the first inserted, and the
\* table holds that one row of the price.
C7_Witness ==
    /\ submitRet # NoCall
    /\ submitRet.input.observed_at = NoObservedAt
    /\ submitRet.outcome = "ok"
    /\ ~submitRet.inserted
    /\ \E i \in EarlierSubmissions :
          /\ RowsBefore[i].created_at = RowsBefore[i].observed_at
          /\ submitRet.at = RowsBefore[i].created_at + DedupeWindowSec
          /\ submitRet.snapshot_id = RowsBefore[i].id
          /\ EarlierSubmissions = {i}
          /\ Len(price_snapshots) = Len(RowsBefore)

\* The rows of the store and UPC of the last submitPrice call, as positions of
\* the table the call found.
HistoryOfCall ==
    {i \in 1..Len(RowsBefore) :
        /\ RowsBefore[i].store_id = submitRet.input.store_id
        /\ RowsBefore[i].upc = submitRet.input.upc}

\* The sets left by dropping one of the oldest rows of S until at most
\* HistLimit remain.
RECURSIVE KeepMostRecent(_)
KeepMostRecent(S) ==
    IF Cardinality(S) <= HistLimit THEN {S}
    ELSE UNION {KeepMostRecent(S \ {o}) :
                  o \in {i \in S : \A j \in S :
                            RowsBefore[i].observed_at <= RowsBefore[j].observed_at}}

\* The k-th smallest price among the rows S.
PriceAtRank(S, k) ==
    CHOOSE v \in {RowsBefore[i].price_cents : i \in S} :
        /\ Cardinality({i \in S : RowsBefore[i].price_cents < v}) < k
        /\ Cardinality({i \in S : RowsBefore[i].price_cents <= v}) >= k

\* Twice the median price of the rows S (S is not empty).
TwiceMedianPrice(S) ==
    LET n == Cardinality(S)
    IN  IF n % 2 = 1 THEN 2 * PriceAtRank(S, (n + 1) \div 2)
        ELSE PriceAtRank(S, n \div 2) + PriceAtRank(S, n \div 2 + 1)

\* The last submitPrice call got as far as the outlier rule.
ReachedOutlierRule ==
    /\ submitRet # NoCall
    /\ \/ submitRet.outcome = "OUTLIER_PRICE"
       \/ submitRet.outcome = "ok" /\ submitRet.inserted

\* C8 as stated: a submission is rejected with OUTLIER_PRICE exactly when its
\* price lies outside [0.3 x median, 3.0 x median] of the 25 most recent
\* prices of the store and UPC; with no history it is never rejected.
C8_Original ==
    ReachedOutlierRule =>
        \E S \in KeepMostRecent(HistoryOfCall) :
            (submitRet.outcome = "OUTLIER_PRICE") <=>
                /\ S # {}
                /\ \/ 20 * submitRet.input.price_cents < 3 * TwiceMedianPrice(S)
                   \/ 2 * submitRet.input.price_cents > 3 * TwiceMedianPrice(S)

\* C8 amended: with med the median of the 25 most recent prices of the store
\* and UPC (the mean of the two middle prices rounded half up when their
\* number is even), a submission is rejected with OUTLIER_PRICE exactly when
\* its price is below floor(0.3 x med) or above ceil(3.0 x med); with no
\* history it is never rejected.
C8_OutlierOutsideRoundedBand ==
    ReachedOutlierRule =>
        \E S \in KeepMostRecent(HistoryOfCall) :
            (submitRet.outcome = "OUTLIER_PRICE") <=>
                /\ S # {}
                /\ LET med == (TwiceMedianPrice(S) + 1) \div 2
                   IN  \/ submitRet.input.price_cents < (3 * med) \div 10
                       \/ submitRet.input.price_cents > 3 * med

\* C8 witness: against more than 25 rows whose 25 most recent have median 500
\* (and whose whole has median 5), a price of 100 was rejected.
C8_Witness ==
    /\ submitRet # NoCall
    /\ submitRet.outcome = "OUTLIER_PRICE"
    /\ submitRet.input.price_cents = 100
    /\ Cardinality(HistoryOfCall) > HistLimit
    /\ \A S \in KeepMostRecent(HistoryOfCall) : TwiceMedianPrice(S) = 2 * 500
    /\ TwiceMedianPrice(HistoryOfCall) = 2 * 5

\* The last quoteCart call returned a response.
Quoted == quoteRet # NoCall /\ quoteRet.outcome = "ok"

\* Store a is strictly more complete than store b.
MoreComplete(a, b) == a.matched_count * b.item_count > b.matched_count * a.item_count

SameCompleteness(a, b) == a.matched_count * b.item_count = b.matched_count * a.item_count

\* C9: the ranking holds each quoted store once; a store of strictly greater
\* completeness ranks above one of lower completeness whatever their totals,
\* so the lower one is never cheapest_store_id; stores of equal completeness
\* are in ascending adjusted_total_cents, then ascending total_cents; and
\* cheapest_store_id is the top of the ranking.
C9_RankedByCompletenessThenTotals ==
    Quoted =>
        LET out == quoteRet.stores
            ranked == quoteRet.ranked
        IN  /\ Len(ranked) = Len(out)
            /\ \A i \in 1..Len(out) : \E j \in 1..Len(ranked) : ranked[j] = out[i]
            /\ \A i, j \in 1..Len(ranked) :
                  /\ MoreComplete(ranked[i], ranked[j]) => i < j
                  /\ (i < j /\ SameCompleteness(ranked[i], ranked[j])) =>
                        /\ ranked[i].adjusted_total_cents <= ranked[j].adjusted_total_cents
                        /\ ranked[i].adjusted_total_cents = ranked[j].adjusted_total_cents
                              => ranked[i].total_cents <= ranked[j].total_cents
            /\ \A i, j \in 1..Len(out) :
                  MoreComplete(out[i], out[j]) =>
                      quoteRet.cheapest_store_id # out[j].store_id
            /\ Len(ranked) > 0 => quoteRet.cheapest_store_id = ranked[1].store_id

\* C9 witness: a quote of two stores where the less complete one has the
\* lower total and the lower adjusted total, and the more complete one is
\* cheapest_store_id.
C9_Witness ==
    /\ Quoted
    /\ \E i, j \in 1..Len(quoteRet.stores) :
          LET a == quoteRet.stores[i]
              b == quoteRet.stores[j]
          IN  /\ MoreComplete(a, b)
              /\ 0 < b.total_cents /\ b.total_cents < a.total_cents
              /\ b.adjusted_total_cents < a.adjusted_total_cents
              /\ j < i
              /\ quoteRet.cheapest_store_id = a.store_id

\* The completeness the response carries is matched_count / item_count, and
\* 0 for an empty cart.
CompletenessIsMatchedShare(s) ==
    /\ s.completeness.num * s.item_count = s.matched_count * s.completeness.den
    /\ s.item_count = 0 => s.completeness.num = 0

\* C10 as stated: adjusted_total_cents of every quoted store is total_cents
\* divided by max(1/4, completeness), rounded to the nearest integer, a
\* quotient k + 1/2 going up to k + 1 (as Math.round does) or to the even one
\* of k and k + 1; it is total_cents at completeness 1, never below
\* total_cents and never above 4 x total_cents (4 x total_cents at
\* completeness <= 1/4).
C10_Original ==
    Quoted =>
        \A i \in 1..Len(quoteRet.stores) :
            LET s == quoteRet.stores[i]
                low == 4 * s.matched_count <= s.item_count
                p == IF low THEN 4 * s.total_cents ELSE s.total_cents * s.item_count
                q == IF low THEN 1 ELSE s.matched_count
                a == s.adjusted_total_cents
            IN  /\ CompletenessIsMatchedShare(s)
                /\ (2 * a - 1) * q <= 2 * p
                /\ 2 * p <= (2 * a + 1) * q
                /\ (2 * a * q = 2 * p - q) => a % 2 = 0
                /\ (s.item_count > 0 /\ s.matched_count = s.item_count)
                      => a = s.total_cents
                /\ a >= s.total_cents
                /\ a <= 4 * s.total_cents
                /\ low => a = 4 * s.total_cents

\* C10, the part the code keeps: adjusted_total_cents is within 1/2 of
\* total_cents / max(1/4, completeness), is total_cents at completeness 1,
\* never below total_cents and never above 4 x total_cents.
C10_AdjustedTotalWithinHalfCent ==
    Quoted =>
        \A i \in 1..Len(quoteRet.stores) :
            LET s == quoteRet.stores[i]
                low == 4 * s.matched_count <= s.item_count
                p == IF low THEN 4 * s.total_cents ELSE s.total_cents * s.item_count
                q == IF low THEN 1 ELSE s.matched_count
                a == s.adjusted_total_cents
            IN  /\ CompletenessIsMatchedShare(s)
                /\ (2 * a - 1) * q <= 2 * p
                /\ 2 * p <= (2 * a + 1) * q
                /\ (s.item_count > 0 /\ s.matched_count = s.item_count)
                      => a = s.total_cents
                /\ a >= s.total_cents
                /\ a <= 4 * s.total_cents
                /\ low => a = 4 * s.total_cents

\* C10 witness: one quote holds a store of total 1000 at completeness 1/5
\* adjusted to 4000, a store at completeness 2/5 whose quotient 937.5 was
\* rounded up, and a complete store whose adjusted total is its total.
C10_Witness ==
    /\ Quoted
    /\ \E i, j, k \in 1..Len(quoteRet.stores) :
          LET a == quoteRet.stores[i]
              b == quoteRet.stores[j]
              c == quoteRet.stores[k]
          IN  /\ a.total_cents = 1000 /\ 5 * a.matched_count = a.item_count
              /\ a.adjusted_total_cents = 4000
              /\ b.matched_count = b.item_count /\ b.item_count = 5
              /\ b.adjusted_total_cents = b.total_cents /\ b.total_cents > 0
              /\ 5 * c.matched_count = 2 * c.item_count
              /\ c.total_cents = 375 /\ c.adjusted_total_cents = 938

\* The sum of unit_price_cents x quantity over the matched lines.
RECURSIVE SumOfMatchedLines(_)
SumOfMatchedLines(lines) ==
    IF lines = <<>> THEN 0
    ELSE (IF lines[1].missing THEN 0
          ELSE lines[1].unit_price_cents * lines[1].quantity)
            + SumOfMatchedLines(Tail(lines))

\* C11: every quoted store has one line per cart item, in cart order; its
\* total_cents is the sum over the matched lines of unit_price_cents x
\* quantity, matched_count counts the matched lines, matched_count +
\* missing_count = item_count, and completeness is matched_count / item_count
\* (0 when the cart is empty), so it lies between 0 and 1.
C11_TotalsAndCompleteness ==
    Quoted =>
        \A i \in 1..Len(quoteRet.stores) :
            LET s == quoteRet.stores[i]
            IN  /\ s.item_count = Len(cart_items)
                /\ Len(s.lines) = Len(cart_items)
                /\ \A l \in 1..Len(s.lines) :
                      /\ s.lines[l].upc = cart_items[l].upc
                      /\ s.lines[l].quantity = cart_items[l].quantity
                /\ s.total_cents = SumOfMatchedLines(s.lines)
                /\ s.matched_count =
                      Cardinality({l \in 1..Len(s.lines) : ~s.lines[l].missing})
                /\ s.matched_count + s.missing_count = s.item_count
                /\ CompletenessIsMatchedShare(s)
                /\ s.completeness.den > 0
                /\ 0 <= s.completeness.num
                /\ s.completeness.num <= s.completeness.den

\* C11 witness: a three-line cart of quantity 1 priced 399, 549 and 699 at a
\* store: completeness 1, total 1647, adjusted total 1647.
C11_Witness ==
    /\ Quoted
    /\ \E i \in 1..Len(quoteRet.stores) :
          LET s == quoteRet.stores[i]
          IN  /\ Len(s.lines) = 3
              /\ \A l \in 1..3 : s.lines[l].quantity = 1
              /\ s.lines[1].unit_price_cents = 399
              /\ s.lines[2].unit_price_cents = 549
              /\ s.lines[3].unit_price_cents = 699
              /\ s.completeness.num = s.completeness.den
              /\ s.total_cents = 1647
              /\ s.adjusted_total_cents = 1647

(***************************************************************************)
(* C12.  storeSearch when geocode fails.                                    *)
(***************************************************************************)
\* The last storeSearch call found no geocode cache entry, called geocode,
\* and geocode threw.
GeocodeRaised ==
    /\ searchRet # NoCall
    /\ ~searchRet.geoCached
    /\ searchRet.geocodeError # NoError

\* C12: when the location is not in the geocode cache and geocode throws
\* (PROVIDER_OPEN, NOT_FOUND, a timeout, an HTTP or a parse error), storeSearch
\* returns a response with data_mode "seed" and a non-empty list of stores if
\* the stores table has a seed row, and throws the error of geocode only if
\* it has none.
C12_GeocodeFailureFallsBackToSeed ==
    GeocodeRaised =>
        IF searchRet.seedStores # {}
        THEN /\ searchRet.ret.outcome = "ok"
             /\ searchRet.ret.data_mode = "seed"
             /\ searchRet.ret.stores # <<>>
             /\ {searchRet.ret.stores[i].id : i \in 1..Len(searchRet.ret.stores)}
                    = searchRet.seedStores
        ELSE /\ searchRet.ret.outcome = "error"
             /\ searchRet.ret.error = searchRet.geocodeError

\* geocode threw PROVIDER_OPEN at a tripped breaker, the table had seed rows
\* farther from their mean place than the radius, and the call answered
\* with them.
C12_Witness ==
    /\ GeocodeRaised
    /\ searchRet.geocodeError = "PROVIDER_OPEN"
    /\ searchRet.seedStores # {}
    /\ searchRet.ret.data_mode = "seed"
    /\ \E i \in 1..Len(searchRet.ret.stores) :
          searchRet.ret.stores[i].distance_m > searchRet.ret.radius_m

(***************************************************************************)
(* C13.  Stale-while-revalidate in lookupProduct and searchProducts.        *)
(***************************************************************************)
\* The last catalog call found an expired cache entry.
StaleHit == catRet # NoCall /\ catRet.peek = "stale"

\* The expired entry's payload, tagged cache / stale.
StaleServed ==
    catRet.ret = CatalogResponse("cache", "stale", catRet.payload.body)

\* C13 as stated: a lookupProduct or searchProducts call that finds an
\* expired cache entry returns its payload tagged data_mode "cache",
\* cache_state "stale", and a background refresh of the entry is triggered.
C13_Original ==
    StaleHit => StaleServed /\ catRet.triggered # <<>>

\* What holds of a call that finds an expired entry: it returns the payload
\* tagged cache / stale, and hands one refresh to waitUntil exactly when it
\* was given an execution context.
C13_StaleServedRefreshNeedsContext ==
    StaleHit =>
        /\ StaleServed
        /\ Len(catRet.triggered) = IF catRet.execCtx THEN 1 ELSE 0

\* A call that finds an expired entry calls no provider and takes no token
\* before it answers, and a refresh that runs later, however it ends, leaves
\* the answer as it was.
C13_RefreshApartFromResponse ==
    [][/\ (catRet' # catRet /\ catRet'.peek = "stale") =>
              UNCHANGED <<query_cache, rate_limits, provider_health, product_rows,
                          product_provider_payloads>>
       /\ (Len(background') < Len(background)) => catRet' = catRet]_vars

\* An expired entry was served to a call with an execution context, the
\* refresh ran and was denied by the rate limit.
C13_Witness ==
    /\ StaleHit
    /\ catRet.execCtx
    /\ catRet.op = "searchProducts"
    /\ catRet.triggered # <<>>
    /\ background = <<>>
    /\ rate_limits["rl:s1:openfoodfacts:search"] # NoRow
    /\ rate_limits["rl:s1:openfoodfacts:search"].updated_at >= catRet.at

(***************************************************************************)
(* C14.  lookupProduct on a total miss whose live fetch fails.              *)
(***************************************************************************)
\* The last call was a lookupProduct that found no cache entry and whose
\* refreshLookup threw.
LiveFetchFailed ==
    /\ catRet # NoCall
    /\ catRet.op = "lookupProduct"
    /\ catRet.peek = "miss"
    /\ catRet.liveError # NoError

\* C14: when lookupProduct finds no cache entry for the UPC and the live
\* fetch fails (rate limit, open breaker, NOT_FOUND, schema, timeout, HTTP or
\* parse error), it returns the stored products row of that UPC if there is
\* one, with data_mode "seed" for a row of source seed and "cache" for any
\* other, and throws the error of the live fetch only if there is none.
C14_MissFallsBackToStoredRow ==
    LiveFetchFailed =>
        IF catRet.row # Null
        THEN /\ catRet.ret.outcome = "ok"
             /\ catRet.ret.body = [product |-> catRet.row]
             /\ catRet.ret.data_mode =
                    IF catRet.row.source = "seed" THEN "seed" ELSE "cache"
        ELSE /\ catRet.ret.outcome = "error"
             /\ catRet.ret.error = catRet.liveError

\* The live fetch was refused by the open breaker and the seeded row of the
\* UPC was returned as seed.
C14_Witness ==
    /\ LiveFetchFailed
    /\ catRet.liveError = "PROVIDER_OPEN"
    /\ catRet.row # Null
    /\ catRet.row.source = "seed"
    /\ catRet.ret.data_mode = "seed"

(***************************************************************************)
(* C15.  getKrogerLivePriceOverlay and provider problems.                   *)
(***************************************************************************)
OverlayReturned == overlayRet # NoCall

\* C15 as stated: whatever goes wrong with the provider (open breaker, HTTP
\* or parse failure, missing credentials, rate-limit denial in the location
\* lookup, the token fetch or a per-UPC fetch), the call returns
\* {prices_by_upc, warnings} and the problem appears as a warning code.
C15_Original ==
    OverlayReturned =>
        /\ overlayRet.outcome = "ok"
        /\ overlayRet.problems # {} => overlayRet.warnings # <<>>

\* What holds: the call always returns, and every provider problem other
\* than a denial by the locations bucket appears as the one warning code of
\* the step it happened in.
C15_ReturnsAndWarnsButForLocationDenial ==
    OverlayReturned =>
        /\ overlayRet.outcome = "ok"
        /\ overlayRet.problems \ {"KROGER_RATE_LIMITED_LOCATIONS"} # {}
              => /\ Len(overlayRet.warnings) = 1
                 /\ overlayRet.warnings[1] \in
                       {"KROGER_MISCONFIGURED_MISSING_CREDS",
                        "KROGER_UNAVAILABLE_LOCATION_LOOKUP",
                        "KROGER_UNAVAILABLE_AUTH",
                        "KROGER_PARTIAL_OR_RATE_LIMITED"}
        /\ "KROGER_RATE_LIMITED_LOCATIONS" \in overlayRet.problems
              => overlayRet.warnings = <<>> /\ overlayRet.prices_by_upc = {}

\* A per-UPC fetch failed upstream and the call returned the price it had
\* for another UPC together with the partial warning.
C15_Witness ==
    /\ OverlayReturned
    /\ "http_503" \in overlayRet.problems
    /\ overlayRet.prices_by_upc # {}
    /\ overlayRet.warnings = <<"KROGER_PARTIAL_OR_RATE_LIMITED">>

\* The requested ids that are rows of stores, and those that are not.
RequestedKnown == {quoteRet.store_ids[i] : i \in 1..Len(quoteRet.store_ids)} \cap stores
RequestedUnknown == {quoteRet.store_ids[i] : i \in 1..Len(quoteRet.store_ids)} \ stores

\* The place of an id's first occurrence in the request.
FirstRequested(id) ==
    CHOOSE i \in 1..Len(quoteRet.store_ids) :
        /\ quoteRet.store_ids[i] = id
        /\ \A j \in 1..(i - 1) : quoteRet.store_ids[j] # id

UnknownStoresWarnings ==
    {i \in 1..Len(quoteRet.warnings) : quoteRet.warnings[i].code = "UNKNOWN_STORES"}

\* C16: a quoteCart call fails only by rate limiting, whatever ids it is given;
\* a call that is let through returns exactly one entry per requested id that
\* is a row of stores, in the order of the ids' first occurrences in the
\* request; it carries one UNKNOWN_STORES warning naming exactly the requested
\* ids that are no row of stores when there are any, and none otherwise; and
\* when no requested id resolves, stores is empty and cheapest_store_id null.
C16_UnknownStoresWarnedResolvedQuoted ==
    quoteRet # NoCall =>
        /\ quoteRet.outcome \in {"ok", "RATE_LIMITED"}
        /\ quoteRet.outcome = "RATE_LIMITED"
              => rate_limits["quote:s1"].tokens < RL_QUOTE.cost
        /\ quoteRet.outcome = "ok" =>
              /\ {quoteRet.stores[i].store_id : i \in 1..Len(quoteRet.stores)}
                    = RequestedKnown
              /\ Len(quoteRet.stores) = Cardinality(RequestedKnown)
              /\ \A i, j \in 1..Len(quoteRet.stores) :
                    i < j => FirstRequested(quoteRet.stores[i].store_id)
                                < FirstRequested(quoteRet.stores[j].store_id)
              /\ Cardinality(UnknownStoresWarnings)
                    = (IF RequestedUnknown = {} THEN 0 ELSE 1)
              /\ \A w \in UnknownStoresWarnings :
                    {quoteRet.warnings[w].store_ids[k] :
                        k \in 1..Len(quoteRet.warnings[w].store_ids)}
                       = RequestedUnknown
              /\ RequestedKnown = {}
                    => quoteRet.stores = <<>> /\ quoteRet.cheapest_store_id = NullId

\* A request of an unknown and a known id was quoted for the known one and
\* warned of the unknown one.
C16_Witness ==
    /\ quoteRet # NoCall
    /\ quoteRet.outcome = "ok"
    /\ quoteRet.store_ids = <<"Z", "A">>
    /\ Len(quoteRet.stores) = 1
    /\ quoteRet.stores[1].store_id = "A"
    /\ quoteRet.cheapest_store_id = "A"
    /\ UnknownStoresWarnings # {}

\* C17: whatever the clock reads from call to call, and whatever the config
\* of capacity, cost and refill >= 0, a stored bucket row holds at least 0
\* and at most capacity tokens.
C17_TokensWithinCapacity ==
    \A k \in RLKeys :
        rate_limits[k] # NoRow =>
            /\ 0 <= rate_limits[k].tokens
            /\ rate_limits[k].tokens <= rlCfg[k].capacity

\* A bucket of one token that refills half a token a second holds half a
\* token stamped 0: it was denied at a later reading, and then called again
\* after the clock had gone back to 0.
C17_Witness ==
    /\ rlCfg["k"] = [capacity |-> TokenScale, refillPerSec |-> 1, cost |-> TokenScale]
    /\ rate_limits["k"] = [tokens |-> 1, updated_at |-> 0]
    /\ rlRet = [op |-> "takeToken", key |-> "k", allowed |-> FALSE]
    /\ now = 0

\* The last breaker operation was isOpen.
IsOpenReturned == cbRet # NoCall /\ cbRet.op = "isOpen"

\* C18: isOpen(provider) returns true exactly when provider_health has a row
\* for the provider whose open_until is later than the clock reading of the
\* call, a provider without a row being closed; and a step that is an isOpen
\* call leaves provider_health as it was.
C18_IsOpenReadsWindowOnly ==
    /\ [](IsOpenReturned =>
            (cbRet.result <=>
                /\ provider_health[cbRet.provider] # NoRow
                /\ provider_health[cbRet.provider].open_until > cbRet.at))
    /\ [][(cbRet' # cbRet /\ cbRet'.op = "isOpen")
             => provider_health' = provider_health]_vars

\* isOpen answered true for a tripped provider.
C18_Witness ==
    /\ IsOpenReturned
    /\ cbRet.result
    /\ provider_health[cbRet.provider] # NoRow
    /\ provider_health[cbRet.provider].open_until > cbRet.at

\* The last call on key k came after a denied call on k, with no call on k
\* in between, once the time since the denial had refilled the cost, under
\* a config whose capacity holds the cost.
RefilledSinceDenial(k) ==
    /\ rlLast[k] # NoCall
    /\ rlLast[k].deniedAt # NoDenial
    /\ (rlLast[k].at - rlLast[k].deniedAt) * rlCfg[k].refillPerSec >= rlCfg[k].cost
    /\ rlCfg[k].capacity >= rlCfg[k].cost

\* C19: a takeToken call on a key that follows a denied call on the key at
\* t0, made at a t1 with (t1 - t0) * refillPerSec >= cost and no call on the
\* key in between, returns true when capacity >= cost.
C19_AllowedOnceCostRefilled ==
    \A k \in RLKeys : RefilledSinceDenial(k) => rlLast[k].allowed

\* A key was denied, left alone while the cost refilled, and then allowed.
C19_Witness ==
    \E k \in RLKeys :
        /\ RefilledSinceDenial(k)
        /\ rlLast[k].at > rlLast[k].deniedAt
        /\ rlLast[k].allowed
        /\ rate_limits[k].updated_at = rlLast[k].at

\* The rows of price_snapshots before a step are, each with its fields as
\* they were, the first rows after it.
SnapshotsKept ==
    /\ Len(price_snapshots') >= Len(price_snapshots)
    /\ SubSeq(price_snapshots', 1, Len(price_snapshots)) = price_snapshots

\* The step is a submitPrice call that returned.
SubmitReturned == submitRet' # submitRet

\* C20: every step of the system keeps the price_snapshots rows there are,
\* unchanged and in place; a submitPrice call adds at most one row after
\* them, and any other step adds none.
C20_SnapshotsAppendOnly ==
    [][/\ SnapshotsKept
       /\ Len(price_snapshots') <= Len(price_snapshots) + 1
       /\ ~SubmitReturned => price_snapshots' = price_snapshots]_vars

\* A submission was appended after the seeded row and another submission
\* for the same store and UPC after it, and a quote was made.
C20_Witness ==
    /\ Len(price_snapshots) = 3
    /\ price_snapshots[1] = SeedRow(1, "A", "pb", 5, DedupeStart - 10)
    /\ price_snapshots[2].upc = "milk"
    /\ price_snapshots[3].upc = "milk"
    /\ submitRet # NoCall
    /\ submitRet.inserted
    /\ quoteRet # NoCall

\* The last quoteCart call returned a quote.
QuoteReturned == quoteRet # NoCall /\ quoteRet.outcome = "ok"

\* Every priced line of the last quote carries the price of a row of its
\* store and UPC than which no row is later, nor as late and more trusted;
\* a line is missing only when the store has no row for the UPC.
LinesFromBestRows ==
    \A s \in 1..Len(quoteRet.stores) :
        \A l \in 1..Len(quoteRet.stores[s].lines) :
            LET line == quoteRet.stores[s].lines[l]
                rows == {i \in 1..Len(price_snapshots) :
                            /\ price_snapshots[i].store_id = quoteRet.stores[s].store_id
                            /\ price_snapshots[i].upc = line.upc}
            IN  IF line.missing THEN rows = {}
                ELSE \E i \in rows :
                        /\ price_snapshots[i].price_cents = line.unit_price_cents
                        /\ price_snapshots[i].observed_at = line.observed_at
                        /\ \A j \in rows :
                              \/ price_snapshots[j].observed_at < price_snapshots[i].observed_at
                              \/ /\ price_snapshots[j].observed_at = price_snapshots[i].observed_at
                                 /\ price_snapshots[j].confidence <= price_snapshots[i].confidence

\* A quoteCart step that follows a quote of the same store ids made at the
\* same clock reading: the evidence log and the cart are the same too.
QuotedAgain ==
    /\ QuoteReturned
    /\ quoteRet' # quoteRet
    /\ quoteRet'.outcome = "ok"
    /\ quoteRet'.store_ids = quoteRet.store_ids
    /\ quoteRet'.generated_at = quoteRet.generated_at
    /\ price_snapshots' = price_snapshots
    /\ cart_items' = cart_items

\* C21: the row quoteCart uses for a store and cart UPC is one of the
\* greatest observed_at and, among those, of the greatest confidence, and two
\* quotes over the same evidence log, cart and clock reading select the same
\* price for every line.
C21_Original ==
    /\ [](QuoteReturned => LinesFromBestRows)
    /\ [][QuotedAgain => quoteRet'.stores = quoteRet.stores]_vars

\* C21, the part that holds: the row used is one of the greatest observed_at
\* and, among those, of the greatest confidence.
C21_BestRowSelected == QuoteReturned => LinesFromBestRows

\* Store A was quoted from a table in which two rows of its milk tie on
\* observed_at and confidence and differ in price.
C21_Witness ==
    /\ QuoteReturned
    /\ \E i, j \in 1..Len(price_snapshots) :
          /\ price_snapshots[i].store_id = "A" /\ price_snapshots[j].store_id = "A"
          /\ price_snapshots[i].upc = price_snapshots[j].upc
          /\ price_snapshots[i].observed_at = price_snapshots[j].observed_at
          /\ price_snapshots[i].confidence = price_snapshots[j].confidence
          /\ price_snapshots[i].price_cents # price_snapshots[j].price_cents
          /\ \E s \in 1..Len(quoteRet.stores) :
                /\ quoteRet.stores[s].store_id = "A"
                /\ \E l \in 1..Len(quoteRet.stores[s].lines) :
                      /\ quoteRet.stores[s].lines[l].upc = price_snapshots[i].upc
                      /\ quoteRet.stores[s].lines[l].unit_price_cents
                            = price_snapshots[i].price_cents

\* The last storeSearch call had a token bucket check deny it.
SearchDenied == searchRet # NoCall /\ searchRet.denied # {}

RateLimitErrors == {"RATE_LIMIT_GEOCODE", "RATE_LIMIT_OVERPASS", "RATE_LIMITED"}

\* C22: a storeSearch call in which a token bucket check denied the request
\* ends with a rate-limit error for the caller, not with a response.
C22_Original ==
    SearchDenied =>
        /\ searchRet.ret.outcome = "error"
        /\ searchRet.ret.error \in RateLimitErrors

\* C22, the part that holds: a denial of the geocode bucket ends the call
\* with RATE_LIMIT_GEOCODE, and a denial of the Overpass bucket is answered
\* from the seed stores around the geocoded center, with no Overpass request
\* recorded on the breaker.
C22_OnlyGeocodeDenialSurfaces ==
    SearchDenied =>
        /\ Cardinality(searchRet.denied) = 1
        /\ "rl:s1:nominatim" \in searchRet.denied
              => searchRet.ret = Thrown("RATE_LIMIT_GEOCODE")
        /\ "rl:s1:overpass" \in searchRet.denied
              => /\ searchRet.ret.outcome = "ok"
                 /\ searchRet.ret.data_mode = "seed"
                 /\ searchRet.overpassError = NoError

\* The Overpass bucket denied a search that was then answered from the seed.
C22_Witness ==
    /\ SearchDenied
    /\ "rl:s1:overpass" \in searchRet.denied
    /\ searchRet.ret.data_mode = "seed"
    /\ searchRet.ret.stores # <<>>

\* The last catalog call found the OpenFoodFacts breaker open when it went
\* to the provider.
CatalogFoundBreakerOpen ==
    /\ catRet # NoCall
    /\ catRet.op \in {"lookupProduct", "searchProducts"}
    /\ catRet.liveError = "PROVIDER_OPEN"

\* C23: lookupProduct and searchProducts never fail with the provider-open
\* error: a call that finds the breaker open returns a response.
C23_Original ==
    CatalogFoundBreakerOpen =>
        /\ catRet.ret.outcome = "ok"
        /\ catRet.ret.error # "PROVIDER_OPEN"

\* C23, the part that holds: lookupProduct answers an open breaker from the
\* stored product row when there is one; without a stored row, and in every
\* searchProducts call, PROVIDER_OPEN reaches the caller.
C23_OpenBreakerAnsweredOnlyFromStoredRow ==
    CatalogFoundBreakerOpen =>
        IF catRet.op = "lookupProduct" /\ catRet.row # Null
        THEN /\ catRet.ret.outcome = "ok"
             /\ catRet.ret.data_mode \in {"seed", "cache"}
             /\ catRet.ret.body = [product |-> catRet.row]
        ELSE catRet.ret = CatalogThrown("PROVIDER_OPEN")

\* lookupProduct met the open breaker and answered from the stored row.
C23_Witness ==
    /\ CatalogFoundBreakerOpen
    /\ catRet.op = "lookupProduct"
    /\ catRet.row # Null
    /\ catRet.ret.outcome = "ok"

\* More calls were admitted on key "k", which never refills, than its
\* capacity pays for.
OverAdmitted ==
    /\ rlCfg["k"].refillPerSec = 0
    /\ rlRace.admitted * rlCfg["k"].cost > rlCfg["k"].capacity

\* C24: on a key that never refills, more calls than capacity / cost are
\* admitted only when a call wrote over a row that another call had changed
\* since the first one read it; calls whose reads and writes do not
\* interleave admit at most capacity / cost.
C24_OverAdmissionOnlyByInterleaving ==
    OverAdmitted => rlRace.overwrote

\* A bucket of one token and cost one token admitted two calls: both read
\* the full bucket before either wrote.
C24_Witness ==
    /\ rlCfg["k"] = [capacity |-> TokenScale, refillPerSec |-> 0, cost |-> TokenScale]
    /\ rlRace.admitted = 2
    /\ rlRace.started = 2
    /\ rlRace.overwrote
    /\ rate_limits["k"].tokens = 0

(***************************************************************************)
(* C25.  For every interleaving of concurrent recordFailure calls on one    *)
(* provider with no recordSuccess, once tripAfter calls have completed the  *)
(* breaker is open and consecutive_failures counts every completed call.    *)
(* recordFailure reads the row and writes it back in two statements, so     *)
(* two calls that both read before either writes count as one: the          *)
(* statement as made is C25_Original; what holds is that the count is       *)
(* never above the completed calls, equals them when no call wrote over     *)
(* another's row, and the breaker is then open at tripAfter.                *)
(***************************************************************************)
RaceRow == provider_health[RaceProvider]
RaceFailures == IF RaceRow = NoRow THEN 0 ELSE RaceRow.consecutive_failures

C25_Original ==
    cbRace.completed >= cbOpts[RaceProvider].tripAfter
        => /\ RaceFailures = cbRace.completed
           /\ isOpen(RaceRow, now)

C25_CountsCompletedUnlessOverwritten ==
    /\ RaceFailures <= cbRace.completed
    /\ ~cbRace.overlapped =>
          /\ RaceFailures = cbRace.completed
          /\ cbRace.completed >= cbOpts[RaceProvider].tripAfter
                => isOpen(RaceRow, now)

C25_Witness ==
    /\ cbRace.completed >= cbOpts[RaceProvider].tripAfter
    /\ cbRace.overlapped
    /\ RaceFailures < cbOpts[RaceProvider].tripAfter
    /\ ~isOpen(RaceRow, now)

(***************************************************************************)
(* C26.  An adapter invocation that passes the breaker check reports one    *)
(* outcome: the row of recordSuccess when it returns, consecutive_failures  *)
(* one higher when it throws, an empty answer included.  geocode calls      *)
(* recordSuccess before it throws NOT_FOUND inside its own try, and the     *)
(* catch then calls recordFailure: after an empty answer the count is 1     *)
(* whatever it was.  The statement as made is C26_Original; what holds is   *)
(* C26_OneOutcomeExceptEmptyGeocode.                                        *)
(***************************************************************************)
FailuresOf(row) == IF row = NoRow THEN 0 ELSE row.consecutive_failures

\* The storeSearch call that just returned ran geocode past its breaker check.
GeocodeRan(ret) ==
    /\ ret # NoCall
    /\ ~ret.geoCached
    /\ "rl:s1:nominatim" \notin ret.denied
    /\ ret.geocodeError # "PROVIDER_OPEN"

\* It ran queryNearbyStores past its breaker check, and that threw.
OverpassThrew(ret) ==
    /\ ret # NoCall
    /\ ret.overpassError \notin {NoError, "PROVIDER_OPEN"}

OneMoreFailure(p) ==
    FailuresOf(provider_health'[p]) = FailuresOf(provider_health[p]) + 1

C26_Original ==
    [][searchRet' # searchRet =>
          /\ GeocodeRan(searchRet') =>
                IF searchRet'.geocodeError = NoError
                THEN provider_health'["nominatim"] = recordSuccess(NoRow)
                ELSE OneMoreFailure("nominatim")
          /\ OverpassThrew(searchRet') => OneMoreFailure("overpass")]_vars

C26_OneOutcomeExceptEmptyGeocode ==
    [][searchRet' # searchRet =>
          /\ GeocodeRan(searchRet') =>
                CASE searchRet'.geocodeError = NoError ->
                        provider_health'["nominatim"] = recordSuccess(NoRow)
                  [] searchRet'.geocodeError = "NOT_FOUND" ->
                        provider_health'["nominatim"] =
                            [consecutive_failures |-> 1, open_until |-> 0]
                  [] OTHER -> OneMoreFailure("nominatim")
          /\ OverpassThrew(searchRet') => OneMoreFailure("overpass")]_vars

C26_Witness ==
    /\ GeocodeRan(searchRet)
    /\ searchRet.geocodeError = "timeout"
    /\ provider_health["nominatim"] =
          [consecutive_failures |-> DefaultTripAfter,
           open_until |-> searchRet.at + DefaultOpenForSec]

(***************************************************************************)
(* C27.  While isOpen is true for a provider, a call of one of its          *)
(* adapters throws the provider-open error whatever the upstream would      *)
(* answer, so before any HTTP request, and leaves provider_health as it     *)
(* was: no recordFailure, no recordSuccess, no extension of the window.     *)
(***************************************************************************)
\* The adapters applied to a row: what they throw and the row they leave,
\* for every answer of the upstream.
AdapterOutcomes(row, t) ==
    {[error |-> r.error, health |-> r.health] :
        r \in {geocode(row, t, u) : u \in GeocodeUpstream}
              \cup {queryNearbyStores(row, t, u) : u \in OverpassUpstream}
              \cup {offLookupByUpc(row, t, u, "milk") : u \in OffLookupUpstream}
              \cup {offSearch(row, t, u) : u \in OffSearchUpstream}}

KrogerOutcomes(row, t) ==
    {[error |-> r.error, health |-> r.health] :
        r \in {fetchKrogerToken(row, t, u) : u \in TokenUpstream}
              \cup {fetchKrogerLocations(row, t, u) : u \in LocationsUpstream}
              \cup {fetchKrogerProductDetails(row, t, u) : u \in ProductUpstream}}

\* The storeSearch call that just returned reached geocode.
GeocodeCalled(ret) ==
    /\ ret # NoCall
    /\ ~ret.geoCached
    /\ "rl:s1:nominatim" \notin ret.denied

C27_OpenBreakerThrowsUntouched ==
    /\ [](\A p \in SearchProviders :
            isOpen(provider_health[p], now) =>
               /\ AdapterOutcomes(provider_health[p], now) =
                     {[error |-> "PROVIDER_OPEN", health |-> provider_health[p]]}
               /\ KrogerOutcomes(provider_health[p], now) =
                     {[error |-> "KROGER_CIRCUIT_OPEN", health |-> provider_health[p]]})
    /\ [][searchRet' # searchRet =>
            /\ (GeocodeCalled(searchRet') /\ isOpen(provider_health["nominatim"], now))
                  => /\ searchRet'.geocodeError = "PROVIDER_OPEN"
                     /\ provider_health' = provider_health
            /\ searchRet'.geocodeError = "PROVIDER_OPEN"
                  => /\ isOpen(provider_health["nominatim"], now)
                     /\ provider_health' = provider_health
            /\ searchRet'.overpassError = "PROVIDER_OPEN"
                  => /\ isOpen(provider_health["overpass"], now)
                     /\ provider_health'["overpass"] = provider_health["overpass"]]_vars

C27_Witness ==
    /\ GeocodeCalled(searchRet)
    /\ searchRet.geocodeError = "PROVIDER_OPEN"
    /\ isOpen(provider_health["nominatim"], now)
    /\ provider_health["nominatim"].consecutive_failures = DefaultTripAfter

(***************************************************************************)
(* C28.  A recordFailure call that brings consecutive_failures to           *)
(* tripAfter or above sets open_until to the clock reading plus             *)
(* openForSec, so each further failure restarts the window; a call that     *)
(* leaves the count below tripAfter leaves open_until as it was.            *)
(***************************************************************************)
OpenUntilOf(row) == IF row = NoRow THEN 0 ELSE row.open_until

C28_WindowSetAtOrAboveTripAfter ==
    [][\A p \in Providers :
          cbRun'[p] = cbRun[p] + 1 =>
             /\ FailuresOf(provider_health'[p]) = FailuresOf(provider_health[p]) + 1
             /\ IF FailuresOf(provider_health'[p]) >= cbOpts[p].tripAfter
                THEN OpenUntilOf(provider_health'[p]) = now + cbOpts[p].openForSec
                ELSE OpenUntilOf(provider_health'[p]) = OpenUntilOf(provider_health[p])]_vars

\* A failure recorded while the breaker was already open, later than the
\* one that opened it: the window now ends openForSec after this one.
C28_Witness ==
    \E p \in Providers :
        /\ cbRet.op = "recordFailure" /\ cbRet.provider = p
        /\ cbRet.result /\ cbRet.at = now /\ now > 0
        /\ provider_health[p].consecutive_failures > cbOpts[p].tripAfter
        /\ provider_health[p].open_until = now + cbOpts[p].openForSec

(***************************************************************************)
(* C29.  The breaker is closed or open and nothing else.  When open_until   *)
(* has been reached isOpen answers false with no probe state; the passing   *)
(* of the window leaves consecutive_failures as it was, so one failure      *)
(* then opens the breaker again for a whole openForSec, and one success     *)
(* closes it with consecutive_failures 0.                                   *)
(***************************************************************************)
\* The breaker of p has tripped and its window has ended.
WindowEnded(p) ==
    /\ FailuresOf(provider_health[p]) >= cbOpts[p].tripAfter
    /\ OpenUntilOf(provider_health[p]) <= now

C29_ClosedAfterWindowOneFailureReopens ==
    /\ [](\A p \in Providers : WindowEnded(p) => ~isOpen(provider_health[p], now))
    /\ [][\A p \in Providers :
            /\ now' # now => provider_health'[p] = provider_health[p]
            /\ (WindowEnded(p) /\ cbRet'.provider = p /\ now' = now) =>
                  CASE cbRet'.op = "isOpen" ->
                          /\ ~cbRet'.result
                          /\ provider_health'[p] = provider_health[p]
                    [] cbRet'.op = "recordFailure" /\ cbRun'[p] = cbRun[p] + 1 ->
                          /\ isOpen(provider_health'[p], now)
                          /\ provider_health'[p] =
                                [consecutive_failures |->
                                    provider_health[p].consecutive_failures + 1,
                                 open_until |-> now + cbOpts[p].openForSec]
                    [] cbRet'.op = "recordSuccess" /\ cbRun'[p] = 0 ->
                          /\ ~isOpen(provider_health'[p], now)
                          /\ provider_health'[p] =
                                [consecutive_failures |-> 0, open_until |-> 0]
                    [] OTHER -> TRUE]_vars

\* One failure, recorded after the window had ended, has opened the breaker
\* again.
C29_Witness ==
    \E p \in Providers :
        /\ cbRet.op = "recordFailure" /\ cbRet.provider = p
        /\ ~cbRet.result /\ cbRet.at = now
        /\ provider_health[p].consecutive_failures > cbOpts[p].tripAfter
        /\ provider_health[p].open_until = now + cbOpts[p].openForSec
        /\ isOpen(provider_health[p], now)

(***************************************************************************)
(* C30.  consecutive_failures does not decay with time: it changes only     *)
(* by one upwards in a recordFailure call and to 0 in a recordSuccess       *)
(* call.  A provider at tripAfter - 1 failures is tripped by its next       *)
(* failure however long it has been idle.                                   *)
(***************************************************************************)
C30_FailuresChangeOnlyByOutcome ==
    [][\A p \in Providers :
          LET f == FailuresOf(provider_health[p])
              g == FailuresOf(provider_health'[p])
          IN  /\ now' # now => provider_health'[p] = provider_health[p]
              /\ g # f =>
                    /\ cbRet'.provider = p
                    /\ \/ g = f + 1 /\ cbRet'.op = "recordFailure"
                       \/ g = 0 /\ cbRet'.op = "recordSuccess"
              /\ (f = cbOpts[p].tripAfter - 1 /\ cbRun'[p] = cbRun[p] + 1) =>
                    /\ g = cbOpts[p].tripAfter
                    /\ isOpen(provider_health'[p], now)]_vars

\* A provider one failure from tripping, idle since its last failure for
\* longer than a whole window.
C30_Witness ==
    \E p \in Providers :
        /\ FailuresOf(provider_health[p]) = cbOpts[p].tripAfter - 1
        /\ cbLastFailAt[p] <= CBEarly
        /\ now >= cbLastFailAt[p] + DefaultOpenForSec

(***************************************************************************)
(* C31.  takeToken writes the row of its key on every call, allowed or      *)
(* denied: updated_at becomes the clock reading of the call and tokens the  *)
(* refilled amount min(capacity, tokens + elapsed * refillPerSec), less     *)
(* cost only when the call was allowed.  The rows of the other keys are     *)
(* left alone.                                                              *)
(***************************************************************************)
\* The refilled amount of a key at the present clock reading.
RefilledAmount(k) ==
    IF rate_limits[k] = NoRow THEN rlCfg[k].capacity
    ELSE Min(rlCfg[k].capacity,
             rate_limits[k].tokens
                + (now - rate_limits[k].updated_at) * rlCfg[k].refillPerSec)

C31_RowWrittenOnEveryCall ==
    [][\A k \in RLKeys :
          IF rlCalls'[k] = rlCalls[k] + 1
          THEN /\ rlRet'.key = k
               /\ rlRet'.allowed = (RefilledAmount(k) >= rlCfg[k].cost)
               /\ rate_limits'[k] =
                     [tokens |-> IF rlRet'.allowed
                                 THEN RefilledAmount(k) - rlCfg[k].cost
                                 ELSE RefilledAmount(k),
                      updated_at |-> now]
          ELSE rate_limits'[k] = rate_limits[k]]_vars

\* A denied call has written the refilled amount and its clock reading.
C31_Witness ==
    /\ rlLast["k"] # NoCall
    /\ ~rlLast["k"].allowed
    /\ rlLast["k"].at = now /\ now > 0
    /\ rate_limits["k"].updated_at = now
    /\ rate_limits["k"].tokens > 0
    /\ rate_limits["k"].tokens < rlCfg["k"].cost

(***************************************************************************)
(* C32.  fetchWithRetry terminates: whatever the upstream does it returns   *)
(* or throws after at most max(1, attempts) fetches, and it sleeps only     *)
(* between two fetches, never after the last one.                           *)
(***************************************************************************)
HttpDone == http.pc \in {"returned", "thrown"}

C32_TerminatesWithinAttempts ==
    /\ <>HttpDone
    /\ [](/\ Len(httpSeen) <= Max(1, httpReq.attempts)
          /\ Len(httpSleeps) <= Len(httpSeen)
          /\ http.pc = "sleep" => Len(httpSeen) < Max(1, httpReq.attempts)
          /\ HttpDone => Len(httpSleeps) = Len(httpSeen) - 1)

\* Every attempt allowed was made, with a sleep between each two.
C32_Witness ==
    /\ HttpDone
    /\ httpReq.attempts = MaxAttempts
    /\ Len(httpSeen) = MaxAttempts
    /\ Len(httpSleeps) = MaxAttempts - 1

(***************************************************************************)
(* C33.  When fetchWithRetry throws after a retryable response on the last  *)
(* attempt of an idempotent request (so also when every attempt got one),   *)
(* it throws an HttpError with the status of that last response and the     *)
(* URL of the request.  When the last attempt ended in a timeout it throws  *)
(* TimeoutError, and when it ended in a transport error, that error.        *)
(***************************************************************************)
LastSeen == httpSeen[Len(httpSeen)]

AllRetryable ==
    \A i \in 1..Len(httpSeen) :
        httpSeen[i].kind = "response" /\ httpSeen[i].status \in httpReq.retryOnStatuses

C33_LastErrorThrown ==
    /\ (isIdempotent(httpReq) /\ Len(httpSeen) = totalAttempts(httpReq) /\ AllRetryable)
          => /\ http.pc = "thrown"
             /\ http.result = [error |-> "HttpError", status |-> LastSeen.status,
                               url |-> httpReq.input.href]
    /\ http.pc = "thrown" =>
          /\ http.result = http.lastError
          /\ CASE LastSeen.kind = "abort" -> http.result = [error |-> "TimeoutError"]
               [] LastSeen.kind = "network" -> http.result = [error |-> "TypeError"]
               [] OTHER -> /\ isIdempotent(httpReq)
                           /\ http.result = [error |-> "HttpError",
                                             status |-> LastSeen.status,
                                             url |-> httpReq.input.href]

\* The last of three attempts got a retryable status, after a timeout on the
\* second.
C33_Witness ==
    /\ http.pc = "thrown"
    /\ Len(httpSeen) = 3
    /\ httpSeen[1].kind = "response" /\ httpSeen[2].kind = "abort"
    /\ LastSeen.kind = "response"
    /\ http.result.error = "HttpError" /\ http.result.status = 503
    /\ http.result.url = RequestUrl

(***************************************************************************)
(* C34.  A response whose status is not in retryOnStatuses ends the call:   *)
(* fetchWithRetry returns it after that attempt and fetches no more, for    *)
(* idempotent requests too and with attempts left.                          *)
(***************************************************************************)
NotRetryable(seen) ==
    seen.kind = "response" /\ seen.status \notin httpReq.retryOnStatuses

C34_NonRetryableStatusReturned ==
    \A i \in 1..Len(httpSeen) :
        NotRetryable(httpSeen[i]) =>
           /\ i = Len(httpSeen)
           /\ http.pc = "returned"
           /\ http.result.kind = "response"
           /\ http.result.status = httpSeen[i].status

\* An idempotent request with attempts left was answered 404 on its second
\* attempt, after a retried 503.
C34_Witness ==
    /\ isIdempotent(httpReq)
    /\ httpReq.attempts = MaxAttempts
    /\ Len(httpSeen) = 2
    /\ httpSeen[1] = Answered(503)
    /\ httpSeen[2] = Answered(404)
    /\ http.pc = "returned"
    /\ http.result.status = 404

(***************************************************************************)
(* C35.  The delay after failed attempt n is min(maxDelayMs, baseDelayMs *  *)
(* 2^(n-1)), or min(maxDelayMs, Retry-After * 1000) when the retryable      *)
(* response carries a Retry-After header that is a number >= 0.  The time   *)
(* slept is that delay with jitter: between 0.8 and 1.2 times the delay,    *)
(* never negative and never above 1.2 * maxDelayMs.                         *)
(***************************************************************************)
\* The seconds of the Retry-After headers that are numbers >= 0.
ValidRetryAfter == [h \in {"0", "1", "60"} |-> CASE h = "0" -> 0 [] h = "1" -> 1 [] OTHER -> 60]

\* The delay the statement gives for the sleep after attempt n.
DelayAfter(n) ==
    IF httpSeen[n].kind = "response" /\ httpHeaders[n] \in DOMAIN ValidRetryAfter
    THEN Min(MaxDelayMs, ValidRetryAfter[httpHeaders[n]] * 1000)
    ELSE Min(MaxDelayMs, BaseDelayMs * 2 ^ (n - 1))

C35_DelayAndJitterBounds ==
    /\ http.pc = "sleep" => http.delay = DelayAfter(Len(httpSeen))
    /\ \A n \in 1..Len(httpSleeps) :
          /\ 10 * httpSleeps[n] >= 8 * DelayAfter(n)
          /\ 10 * httpSleeps[n] <= 12 * DelayAfter(n)
          /\ httpSleeps[n] >= 0
          /\ 10 * httpSleeps[n] <= 12 * MaxDelayMs

\* Sleeps after a Retry-After of 60 s (capped), after a negative Retry-After
\* (backoff of attempt 2) and after a timeout (backoff of attempt 3).
C35_Witness ==
    /\ Len(httpSleeps) = 3
    /\ httpHeaders[1] = "60" /\ httpSleeps[1] > MaxDelayMs
    /\ httpHeaders[2] = "-2" /\ httpSleeps[2] < 2 * BaseDelayMs
    /\ httpSeen[3].kind = "abort" /\ httpSleeps[3] = 4 * BaseDelayMs

(***************************************************************************)
(* C36.  The per-UPC fetches of the overlay run in a pool of at most 4      *)
(* workers: never more than 4 tasks are in flight, each of the at most 25   *)
(* UPCs taken from the request is processed exactly once, and the overlay   *)
(* returns only after every one of them has been processed.                 *)
(***************************************************************************)
PoolRunning(i) == {w \in DOMAIN pool.workers :
                      pool.workers[w].pc = "fn" /\ pool.workers[w].i = i}

C36_PoolOfFourEachUpcOnce ==
    pool.pc # "idle" =>
       /\ PoolInFlight(pool.workers) <= 4
       /\ pool.peak <= 4
       /\ pool.items <= 25
       /\ \A i \in 0..(pool.items - 1) :
             /\ pool.out[i + 1] + Cardinality(PoolRunning(i)) <= 1
             /\ i >= pool.idx => pool.out[i + 1] + Cardinality(PoolRunning(i)) = 0
             /\ pool.pc = "returned" => pool.out[i + 1] = 1

\* A request of 26 UPCs has returned: 25 were processed, 4 at a time.
C36_Witness ==
    /\ pool.pc = "returned"
    /\ pool.requested = MAX_UPCS_PER_QUOTE + 1
    /\ pool.items = MAX_UPCS_PER_QUOTE
    /\ pool.peak = 4

(***************************************************************************)
(* C37.  In the overlay a rate-limit denial, a provider failure or a        *)
(* missing price for one UPC leaves that UPC without a price and makes the  *)
(* result partial (the one warning KROGER_PARTIAL_OR_RATE_LIMITED), and     *)
(* the other UPCs go on: each is looked up in the cache and, on a miss,     *)
(* asks the products bucket for its own token; each price obtained is in    *)
(* prices_by_upc at the return.                                             *)
(***************************************************************************)
PricedUpcs(prices_by_upc) == {p.upc : p \in prices_by_upc}

\* The callback has just run on the UPC at overlay.idx.
UpcProcessed ==
    /\ overlay.pc = "fetching"
    /\ overlay'.pc = "fetching"
    /\ overlay'.idx = overlay.idx + 1

C37_UpcFailureDoesNotAbortOthers ==
    /\ [][UpcProcessed =>
            LET upc == overlay.upcs[overlay.idx]
                hit == cacheGet(query_cache[priceKey(overlay.locationId, upc)], now)
            IN  /\ overlay.prices_by_upc \subseteq overlay'.prices_by_upc
                /\ PricedUpcs(overlay'.prices_by_upc)
                      \subseteq PricedUpcs(overlay.prices_by_upc) \cup {upc}
                /\ overlay.partial => overlay'.partial
                /\ IF upc \in PricedUpcs(overlay'.prices_by_upc)
                   THEN overlay'.partial = overlay.partial
                   ELSE overlay'.partial
                /\ hit # Null => upc \in PricedUpcs(overlay'.prices_by_upc)
                /\ hit = Null =>
                      rate_limits'["kroger:s1:products"] =
                         takeToken(rate_limits["kroger:s1:products"], RL_PRODUCTS, now).row]_vars
    /\ [][(overlay.pc = "fetching" /\ overlay'.pc = "idle") =>
            /\ overlay.idx = Len(overlay.upcs) + 1
            /\ overlayRet'.prices_by_upc = overlay.prices_by_upc
            /\ overlayRet'.warnings =
                  IF overlay.partial THEN <<"KROGER_PARTIAL_OR_RATE_LIMITED">> ELSE <<>>]_vars

\* The first UPC failed at the provider and the second got its price.
C37_Witness ==
    /\ overlayRet # NoCall
    /\ overlayRet.input.upcs = <<"milk", "pb">>
    /\ overlayRet.warnings = <<"KROGER_PARTIAL_OR_RATE_LIMITED">>
    /\ PricedUpcs(overlayRet.prices_by_upc) = {"pb"}
    /\ overlayRet.problems # {}

(***************************************************************************)
(* C38.  resolveLocationId stores and returns a mapping only for the        *)
(* candidate nearest to the store, and only when that one is at most 700 m  *)
(* away; its match_score max(0, 1 - distance / 700) lies in [0, 1].  With   *)
(* no candidate, a nearest one farther than 700 m, or a denial by the       *)
(* locations bucket, no mapping is written and the overlay returns no       *)
(* prices and no warning.                                                   *)
(***************************************************************************)
\* Math.max(0, 1 - dist_m / MATCH_THRESHOLD_METERS), in thousandths.
matchScore(dist_m) ==
    Max(0, ((MATCH_THRESHOLD_METERS - dist_m) * 1000) \div MATCH_THRESHOLD_METERS)

CandidateDist(store, loc) == distanceMeters(Place(store.lat), Place(loc.lat))

\* The candidates of the last resolveLocationId call that are nearest to
\* the store and within the threshold.
NearestWithinThreshold ==
    {i \in 1..Len(resolved.locations) :
        /\ CandidateDist(resolved.store, resolved.locations[i]) <= MATCH_THRESHOLD_METERS
        /\ \A j \in 1..Len(resolved.locations) :
              CandidateDist(resolved.store, resolved.locations[i])
                 <= CandidateDist(resolved.store, resolved.locations[j])}

\* The last call looked for a location (no fresh mapping was there).
Looked == resolved # NoCall /\ resolved.memo = ""

ObservedAtOf(input) ==
    IF input.observed_at = NoObservedAt THEN now ELSE input.observed_at

\* The rows that hold the input's store, UPC and price within an hour.
SameWithinHour(input) ==
    {i \in 1..Len(price_snapshots) :
        /\ price_snapshots[i].store_id = input.store_id
        /\ price_snapshots[i].upc = input.upc
        /\ price_snapshots[i].price_cents = input.price_cents
        /\ price_snapshots[i].observed_at - ObservedAtOf(input) <= DedupeWindowSec
        /\ ObservedAtOf(input) - price_snapshots[i].observed_at <= DedupeWindowSec}

OutlierNow(input) ==
    isOutlier(median(PricesOf(price_snapshots,
                              RowsOf(price_snapshots, input.store_id, input.upc))),
              input.price_cents)

\* How the statement says a call with this input ends in the present state.
FirstFailingCheck(input) ==
    IF ~takeToken(rate_limits["price_submit:s1"], RL_SUBMIT, now).allowed
    THEN "RATE_LIMITED"
    ELSE IF input.store_id \notin stores THEN "STORE_NOT_FOUND"
    ELSE IF input.upc \notin products THEN "PRODUCT_NOT_FOUND"
    ELSE IF ObservedAtOf(input) > now + 86400 THEN "OBSERVED_AT_IN_FUTURE"
    ELSE IF SameWithinHour(input) # {} THEN "duplicate"
    ELSE IF OutlierNow(input) THEN "OUTLIER_PRICE"
    ELSE "none"

C39_FirstFailingCheckDecides ==
    [][submitRet' # submitRet =>
          LET input == submitRet'.input
              first == FirstFailingCheck(input)
          IN  CASE first = "none" ->
                      /\ submitRet'.outcome = "ok" /\ submitRet'.inserted
                      /\ Len(price_snapshots') = Len(price_snapshots) + 1
                [] first = "duplicate" ->
                      /\ submitRet'.outcome = "ok" /\ ~submitRet'.inserted
                      /\ \E i \in SameWithinHour(input) :
                            submitRet'.snapshot_id = price_snapshots[i].id
                      /\ price_snapshots' = price_snapshots
                [] OTHER ->
                      /\ submitRet'.outcome = first
                      /\ price_snapshots' = price_snapshots]_vars

\* The price is a duplicate of one row and an outlier against the median of
\* the history: the call was answered as a duplicate.
C39_Witness ==
    /\ submitRet # NoCall
    /\ submitRet.outcome = "ok" /\ ~submitRet.inserted
    /\ submitRet.input.price_cents = 100
    /\ submitRet.snapshot_id = 3
    /\ OutlierNow(submitRet.input)
    /\ Len(price_snapshots) = 3

(***************************************************************************)
(* C40.  Two concurrent submitPrice calls with the same store, UPC, price   *)
(* and observed_at: the statement is that at most one row is inserted and   *)
(* that both calls return the same snapshot_id, however their steps         *)
(* interleave.  The dedupe SELECT and the INSERT of a call are separate     *)
(* statements and the table has no unique key but the id, so both calls     *)
(* can miss the other's row and insert one each.                            *)
(***************************************************************************)
BothReturned ==
    /\ \A w \in Callers : submitRace[w].pc = "done" /\ submitRace[w].outcome = "ok"
    /\ submitRace["w1"].input = submitRace["w2"].input
    /\ submitRace["w1"].observedAt = submitRace["w2"].observedAt

InsertedBy == {w \in Callers : submitRace[w].pc = "done" /\ submitRace[w].inserted}

\* The statement as made: violated.
C40_Original ==
    BothReturned =>
        /\ Cardinality(InsertedBy) <= 1
        /\ submitRace["w1"].snapshot_id = submitRace["w2"].snapshot_id

\* The SELECT of caller w ran when the table held the row caller v inserted.
SawRowOf(w, v) ==
    /\ submitRace[v].inserted
    /\ submitRace[w].saw >= submitRace[v].snapshot_id

\* What holds: a call whose dedupe SELECT ran after the other call's INSERT
\* inserts no row and returns the id of a row with the same store, UPC and
\* price within the hour; two rows are inserted only when each SELECT ran
\* before the other call's INSERT; and the table then holds such a row.
C40_SameIdWhenSelectFollowsInsert ==
    BothReturned =>
        /\ \A w, v \in Callers :
              (w # v /\ SawRowOf(w, v)) =>
                  /\ ~submitRace[w].inserted
                  /\ \E i \in 1..Len(price_snapshots) :
                        /\ price_snapshots[i].id = submitRace[w].snapshot_id
                        /\ isDuplicate(price_snapshots[i], submitRace[w].input,
                                       submitRace[w].observedAt)
        /\ (Cardinality(InsertedBy) = 2 =>
               \A w, v \in Callers : w # v => ~SawRowOf(w, v))
        /\ \E i \in 1..Len(price_snapshots) :
              isDuplicate(price_snapshots[i], submitRace["w1"].input,
                          submitRace["w1"].observedAt)

\* Caller w2 ran its SELECT after w1's INSERT into an empty table and
\* returned w1's id.
C40_Witness ==
    /\ BothReturned
    /\ submitRace["w1"].inserted
    /\ ~submitRace["w2"].inserted
    /\ SawRowOf("w2", "w1")
    /\ submitRace["w2"].snapshot_id = submitRace["w1"].snapshot_id
    /\ Len(price_snapshots) = 1

====
